---- MODULE Spec2Model ----
(***************************************************************************)
(* chatgpt2applenotes: conversation rendering and the incremental-sync     *)
(* state machine of AppleNotesExporter.                                    *)
(*                                                                         *)
(* Text is modelled as a sequence of tokens.  A token is one character, a  *)
(* literal HTML tag written by the renderer ("<div>", "</h2>", ...), or a  *)
(* UUID atom ("U1", "U2") that stands for one 36-character run of the      *)
(* shape [a-f0-9]{8}-[a-f0-9]{4}-[a-f0-9]{4}-[a-f0-9]{4}-[a-f0-9]{12}.     *)
(* Every other token is a single character, so substring search, regular   *)
(* expression search and HTML escaping are computed token by token as the  *)
(* code computes them character by character.                              *)
(***************************************************************************)
EXTENDS Integers, Sequences, FiniteSets, TLC

VARIABLES convs, folder, nextId, passes, everOverwrite, last,
          rconv, rk, rout,
          mapping, parsed,
          source, batch,
          call, ret

vars == <<convs, folder, nextId, passes, everOverwrite, last, rconv, rk, rout,
          mapping, parsed, source, batch, call, ret>>

syncVars == <<convs, folder, nextId, passes, everOverwrite, last>>
renderVars == <<rconv, rk, rout>>
parseVars == <<mapping, parsed>>
batchVars == <<source, batch>>
utilVars == <<call, ret>>

(***************************************************************************)
(* Bounds of the model.                                                    *)
(***************************************************************************)
MaxMsgs == 2
MaxPasses == 3
MaxLen == 2
MaxNodes == 3
MaxFiles == 2
MaxEntries == 2
MaxTokens == 2
MaxItems == 3

(***************************************************************************)
(* Tokens.                                                                 *)
(***************************************************************************)
UuidAtoms == {"U1", "U2"}

Whitespace == {" ", "\n"}

FooterOpen == "<div style=\"font-size: x-small; color: gray;\">"

TagAtoms == {"<div>", "</div>", "<h1>", "</h1>", "<h2>", "</h2>", "<br>",
             "<tt>", "</tt>", "<img>", "<html>", "<body>", "</body>",
             "</html>", FooterOpen}

Unsupported == "[Unsupported content type]"

\* Optional[str]: None, or a string
None == [ok |-> FALSE, val |-> <<>>]
Some(s) == [ok |-> TRUE, val |-> s]

\* html.escape of one character
EscapeChar(ch) ==
    CASE ch = "&" -> <<"&", "a", "m", "p", ";">>
      [] ch = "<" -> <<"&", "l", "t", ";">>
      [] ch = ">" -> <<"&", "g", "t", ";">>
      [] ch = "\"" -> <<"&", "q", "u", "o", "t", ";">>
      [] ch = "'" -> <<"&", "#", "x", "2", "7", ";">>
      [] OTHER -> <<ch>>

\* html.escape
RECURSIVE Escape(_)
Escape(s) ==
    IF s = <<>> THEN <<>> ELSE EscapeChar(Head(s)) \o Escape(Tail(s))

\* str.strip()
RECURSIVE LStrip(_)
LStrip(s) ==
    IF s # <<>> /\ Head(s) \in Whitespace THEN LStrip(Tail(s)) ELSE s

RECURSIVE RStrip(_)
RStrip(s) ==
    IF s # <<>> /\ s[Len(s)] \in Whitespace
    THEN RStrip(SubSeq(s, 1, Len(s) - 1))
    ELSE s

Strip(s) == RStrip(LStrip(s))

\* AppleScript: body contains "<id>"
Contains(body, s) ==
    /\ s # <<>>
    /\ \E i \in 1..(Len(body) - Len(s) + 1) : SubSeq(body, i, i + Len(s) - 1) = s

\* number of places where s occurs in body
CountOcc(body, s) ==
    Cardinality({i \in 1..(Len(body) - Len(s) + 1) :
                    SubSeq(body, i, i + Len(s) - 1) = s})

(***************************************************************************)
(* Messages and conversations (core/models.py).  A message is a record     *)
(* [id, role, ctype, recipient, text, img]: img says whether the metadata  *)
(* aggregate_result holds a message of type image.  A conversation is      *)
(* [id, title, messages].                                                  *)
(***************************************************************************)
Message(id, role, ctype, recipient, text, img) ==
    [id |-> id, role |-> role, ctype |-> ctype, recipient |-> recipient,
     text |-> text, img |-> img]

Conversation(id, title, messages) ==
    [id |-> id, title |-> title, messages |-> messages]

\* _get_author_label
GetAuthorLabel(m) ==
    CASE m.role = "assistant" -> <<"ChatGPT">>
      [] m.role = "user" -> <<"You">>
      [] m.role = "tool" -> <<"Plugin">>
      [] OTHER -> <<"System">>

\* a visibility test that lets every execution_output through
ToolMessageHasVisibleContent_AnyExecution(m) ==
    m.ctype \in {"multimodal_text", "execution_output"}

\* _tool_message_has_visible_content
ToolMessageHasVisibleContent(m) ==
    CASE m.ctype = "multimodal_text" -> TRUE
      [] m.ctype = "execution_output" -> m.img
      [] OTHER -> FALSE

\* a message loop without the recipient filter
Skipped_NoRecipient(m) ==
    \/ m.ctype = "model_editable_context"
    \/ (m.role = "tool" /\ ~ToolMessageHasVisibleContent(m))

\* the three filters at the head of the message loop
Skipped(m) ==
    \/ m.ctype = "model_editable_context"
    \/ m.recipient # "all"
    \/ (m.role = "tool" /\ ~ToolMessageHasVisibleContent(m))

\* "<div>" + "</div>\n<div>".join(escaped.split("\n")) + "</div>"
RECURSIVE SplitJoinLines(_)
SplitJoinLines(s) ==
    IF s = <<>> THEN <<>>
    ELSE (IF Head(s) = "\n" THEN <<"</div>", "\n", "<div>">> ELSE <<Head(s)>>)
         \o SplitJoinLines(Tail(s))

EscapedLines(text) == <<"<div>">> \o SplitJoinLines(Escape(text)) \o <<"</div>">>

\* _markdown_to_apple_notes on one paragraph of plain words: markdown-it
\* emits <p>escaped text</p>\n and the token renderer turns p into div
MarkdownToAppleNotes(text) ==
    IF Strip(text) = <<>> THEN <<>>
    ELSE <<"<div>">> \o Escape(Strip(text)) \o <<"</div>", "\n">>

\* _render_user_content
RenderUserContent(m) ==
    CASE m.ctype = "text" -> EscapedLines(m.text)
      [] m.ctype = "multimodal_text" -> EscapedLines(m.text)
      [] OTHER -> <<"<div>", Unsupported, "</div>">>

\* _render_execution_output
RenderExecutionOutput(m) ==
    IF m.img THEN <<"<div>", "<img>", "</div>">>
    ELSE <<"<div>", "<tt>", "R", "e", "s", "u", "l", "t", ":", "\n">>
         \o Escape(m.text) \o <<"</tt>", "</div>">>

\* a dispatch that renders nothing for a content type it does not know
RenderMessageContent_NoneForUnknown(m) ==
    IF m.role = "user" THEN RenderUserContent(m)
    ELSE CASE m.ctype = "text" -> MarkdownToAppleNotes(m.text)
           [] m.ctype = "multimodal_text" -> MarkdownToAppleNotes(m.text)
           [] m.ctype = "code" ->
                <<"<div>", "<tt>">> \o Escape(m.text) \o <<"</tt>", "</div>">>
           [] m.ctype = "execution_output" -> RenderExecutionOutput(m)
           [] OTHER -> <<>>

\* _render_message_content, for the content types the archives of this
\* model hold (no tether_quote and no tether_browsing_display)
RenderMessageContent(m) ==
    IF m.role = "user" THEN RenderUserContent(m)
    ELSE CASE m.ctype = "text" -> MarkdownToAppleNotes(m.text)
           [] m.ctype = "multimodal_text" -> MarkdownToAppleNotes(m.text)
           [] m.ctype = "code" ->
                <<"<div>", "<tt>">> \o Escape(m.text) \o <<"</tt>", "</div>">>
           [] m.ctype = "execution_output" -> RenderExecutionOutput(m)
           [] OTHER -> <<Unsupported>>

Spacer == <<"<div>", "<br>", "</div>">>

\* author heading, spacer, content, spacer: what the loop appends for one
\* message that passes the filters
Section(m) ==
    <<"<div>", "<h2>">> \o Escape(GetAuthorLabel(m)) \o <<"</h2>", "</div>">>
    \o Spacer \o RenderMessageContent(m) \o Spacer

\* the body of the message loop, over a list of messages
RECURSIVE RenderMessages(_)
RenderMessages(msgs) ==
    IF msgs = <<>> THEN <<>>
    ELSE (IF Skipped(Head(msgs)) THEN <<>> ELSE Section(Head(msgs)))
         \o RenderMessages(Tail(msgs))

\* the footer line {conversation_id}:{last_message_id}
Footer(cid, mid) ==
    <<FooterOpen>> \o Escape(cid) \o <<":">> \o Escape(mid) \o <<"</div>">>

\* a renderer that writes the id of the last message it rendered
FooterMessage_LastRendered(conv) ==
    LET shown == {i \in 1..Len(conv.messages) : ~Skipped(conv.messages[i])}
    IN IF shown = {} THEN <<>>
       ELSE conv.messages[CHOOSE i \in shown : \A j \in shown : j <= i].id

\* the id the full render writes after the colon
FooterMessage(conv) == conv.messages[Len(conv.messages)].id

\* a full render that forgets the footer
GenerateHtml_NoFooter(conv, wrap) ==
    LET body == <<"<div>", "<h1>">> \o Escape(conv.title) \o <<"</h1>", "</div>">>
                \o Spacer
                \o RenderMessages(conv.messages)
    IN IF wrap THEN <<"<html>", "<body>">> \o body \o <<"</body>", "</html>">>
       ELSE body

\* _generate_html / render_conversation
GenerateHtml(conv, wrap) ==
    LET body == <<"<div>", "<h1>">> \o Escape(conv.title) \o <<"</h1>", "</div>">>
                \o Spacer
                \o RenderMessages(conv.messages)
                \o (IF conv.messages # <<>>
                    THEN Footer(conv.id, FooterMessage(conv))
                    ELSE <<>>)
    IN IF wrap THEN <<"<html>", "<body>">> \o body \o <<"</body>", "</html>">>
       ELSE body

\* start_idx of generate_append_html / render_append: the number of leading
\* messages left out, 0 when no message carries the id
StartIdx(msgs, after) ==
    LET hits == {i \in 1..Len(msgs) : msgs[i].id = after}
    IN IF hits = {} THEN 0
       ELSE CHOOSE i \in hits : \A j \in hits : i <= j

\* a slice that starts at the cursor message itself
NewMessages_FromCursor(msgs, after) ==
    SubSeq(msgs, IF StartIdx(msgs, after) = 0 THEN 1 ELSE StartIdx(msgs, after),
           Len(msgs))

\* conversation.messages[start_idx:]
NewMessages(msgs, after) == SubSeq(msgs, StartIdx(msgs, after) + 1, Len(msgs))

\* an append loop without the recipient filter
AppendSkipped_NoRecipient(m) ==
    \/ m.ctype = "model_editable_context"
    \/ (m.role = "tool" /\ ~ToolMessageHasVisibleContent(m))

\* the three filters at the head of the loop of generate_append_html
AppendSkipped(m) ==
    \/ m.ctype = "model_editable_context"
    \/ m.recipient # "all"
    \/ (m.role = "tool" /\ ~ToolMessageHasVisibleContent(m))

\* what the loop of generate_append_html appends for one message that
\* passes its filters
AppendSection(m) ==
    <<"<div>", "<h2>">> \o Escape(GetAuthorLabel(m)) \o <<"</h2>", "</div>">>
    \o <<"<div>", "<br>", "</div>">>
    \o RenderMessageContent(m)
    \o <<"<div>", "<br>", "</div>">>

\* the loop of generate_append_html / render_append over new_messages
RECURSIVE AppendMessages(_)
AppendMessages(msgs) ==
    IF msgs = <<>> THEN <<>>
    ELSE (IF AppendSkipped(Head(msgs)) THEN <<>> ELSE AppendSection(Head(msgs)))
         \o AppendMessages(Tail(msgs))

\* an append render without the early return for "nothing new"
GenerateAppendHtml_AlwaysFooter(conv, after) ==
    LET new == NewMessages(conv.messages, after)
    IN AppendMessages(new)
       \o Footer(conv.id, IF new = <<>> THEN after ELSE new[Len(new)].id)

\* generate_append_html / render_append
GenerateAppendHtml(conv, after) ==
    LET new == NewMessages(conv.messages, after)
    IN IF new = <<>> THEN <<>>
       ELSE AppendMessages(new) \o Footer(conv.id, new[Len(new)].id)

\* [^\s<]
IsIdChar(t) == t \notin Whitespace /\ t # "<" /\ t \notin TagAtoms

\* the longest run of [^\s<] starting at position j
RECURSIVE IdRun(_, _)
IdRun(html, j) ==
    IF j <= Len(html) /\ IsIdChar(html[j])
    THEN <<html[j]>> \o IdRun(html, j + 1)
    ELSE <<>>

\* an extraction that returns the whole match instead of group 1
ExtractLastSyncedId_WholeMatch(html) ==
    LET hits == {i \in 1..(Len(html) - 2) :
                    /\ html[i] \in UuidAtoms
                    /\ html[i + 1] = ":"
                    /\ IsIdChar(html[i + 2])}
    IN IF hits = {} THEN None
       ELSE LET i == CHOOSE k \in hits : \A j \in hits : k <= j
            IN Some(<<html[i], ":">> \o IdRun(html, i + 2))

\* extract_last_synced_id: re.search of UUID ":" ([^\s<]+), the leftmost match
ExtractLastSyncedId(html) ==
    LET hits == {i \in 1..(Len(html) - 2) :
                    /\ html[i] \in UuidAtoms
                    /\ html[i + 1] = ":"
                    /\ IsIdChar(html[i + 2])}
    IN IF hits = {} THEN None
       ELSE LET i == CHOOSE k \in hits : \A j \in hits : k <= j
            IN Some(IdRun(html, i + 2))

(***************************************************************************)
(* The Note Store: the notes of the destination folder in the order the    *)
(* AppleScript loops visit them.  A note is [nid, body, owner]: nid is the *)
(* store-native id, owner (history only, never read by the operations)     *)
(* the conversation whose export created the note.                         *)
(***************************************************************************)
Note(nid, body, owner) == [nid |-> nid, body |-> body, owner |-> owner]

\* repeat with aNote in notesList / if body of aNote contains "<id>":
\* the position of the first such note, 0 when there is none
FirstMatch(f, cid) ==
    LET hits == {i \in 1..Len(f) : Contains(f[i].body, cid)}
    IN IF hits = {} THEN 0
       ELSE CHOOSE i \in hits : \A j \in hits : i <= j

\* read_note_body; failed says the osascript call raised CalledProcessError
ReadNoteBody(f, cid, failed) ==
    LET i == FirstMatch(f, cid)
    IN IF failed \/ i = 0 \/ Strip(f[i].body) = <<>> THEN None
       ELSE Some(Strip(f[i].body))

\* append_to_note: [folder, ok, nid]
AppendToNote(f, cid, html, failed) ==
    LET i == FirstMatch(f, cid)
    IN IF failed \/ i = 0 THEN [folder |-> f, ok |-> FALSE, nid |-> 0]
       ELSE [folder |-> [f EXCEPT ![i].body = f[i].body \o html],
             ok |-> TRUE, nid |-> f[i].nid]

RemoveAt(f, i) == SubSeq(f, 1, i - 1) \o SubSeq(f, i + 1, Len(f))

Op(op, nid, ok, by) == [op |-> op, nid |-> nid, ok |-> ok, by |-> by]

\* how write_note finds the note it deletes: the loop over the folder that
\* tests each body for the conversation id
DeleteBy == "search"

\* a write_note whose overwrite branch deletes nothing
DeleteExisting_Skip(f, cid) == [folder |-> f, ops |-> <<>>]

\* the delete loop of write_note(overwrite=True): [folder, ops]
DeleteExisting(f, cid) ==
    LET i == FirstMatch(f, cid)
    IN IF i = 0 THEN [folder |-> f, ops |-> <<>>]
       ELSE [folder |-> RemoveAt(f, i),
             ops |-> <<Op("delete", f[i].nid, TRUE, DeleteBy)>>]

\* write_note / _write_to_apple_notes: [folder, ops, raised].  failed says
\* the script stops after the delete loop, before make new note, and
\* subprocess.run(check=True) raises
WriteNote(f, cid, html, overwrite, nid, failed) ==
    LET d == IF overwrite THEN DeleteExisting(f, cid)
             ELSE [folder |-> f, ops |-> <<>>]
    IN IF failed
       THEN [folder |-> d.folder, ops |-> d.ops, raised |-> TRUE]
       ELSE [folder |-> Append(d.folder, Note(nid, html, cid)),
             ops |-> Append(d.ops, Op("create", nid, TRUE, "new")),
             raised |-> FALSE]

(***************************************************************************)
(* _export_to_notes                                                        *)
(***************************************************************************)
\* if existing_body and not overwrite
TriesAppend(existing, overwrite) == existing.ok /\ ~overwrite

\* if last_synced
HasCursor(cursor) == cursor.ok /\ cursor.val # <<>>

\* an append branch without the return after a successful append
ExportPlan_AppendFallsThrough(existing, overwrite, cursor, app, appendOk) ==
    IF existing.ok /\ ~overwrite /\ cursor.ok /\ cursor.val # <<>> /\ app = <<>>
    THEN "unchanged"
    ELSE "write"

\* the way out of the append branch: "appended" and "unchanged" return,
\* "write" goes on to the full render and write_note
ExportPlan(existing, overwrite, cursor, app, appendOk) ==
    IF TriesAppend(existing, overwrite)
    THEN IF HasCursor(cursor)
         THEN IF app # <<>>
              THEN (IF appendOk THEN "appended" ELSE "write")
              ELSE "unchanged"
         ELSE "write"
    ELSE "write"

\* the overwrite flag handed to write_note: overwrite = True after the
\* append branch was entered and left without returning
WriteOverwrite(existing, overwrite) ==
    IF TriesAppend(existing, overwrite) THEN TRUE ELSE overwrite

\* one call of _export_to_notes(conversation, folder, dry_run=False,
\* overwrite): the folder afterwards and what the call did
ExportToNotes(f, conv, overwrite, nid, fail) ==
    LET existing == ReadNoteBody(f, conv.id, fail = "read")
        try == TriesAppend(existing, overwrite)
        cursor == IF try THEN ExtractLastSyncedId(existing.val) ELSE None
        app == IF try /\ HasCursor(cursor)
               THEN GenerateAppendHtml(conv, cursor.val) ELSE <<>>
        submit == try /\ HasCursor(cursor) /\ app # <<>>
        a == IF submit THEN AppendToNote(f, conv.id, app, fail = "append")
             ELSE [folder |-> f, ok |-> FALSE, nid |-> 0]
        aops == IF submit THEN <<Op("append", a.nid, a.ok, "search")>> ELSE <<>>
        plan == ExportPlan(existing, overwrite, cursor, app, a.ok)
        html == GenerateHtml(conv, FALSE)
        w == WriteNote(a.folder, conv.id, html,
                       WriteOverwrite(existing, overwrite), nid,
                       fail = "write_mid")
    IN [cid |-> conv.id, overwrite |-> overwrite, pre |-> f,
        existing |-> existing, cursor |-> cursor, app |-> app, plan |-> plan,
        folder |-> IF plan = "write" THEN w.folder ELSE a.folder,
        ops |-> IF plan = "write" THEN aops \o w.ops ELSE aops,
        outcome |-> IF plan = "write" /\ w.raised THEN "failed" ELSE "synced"]

(***************************************************************************)
(* The sync state machine: the source archive grows, and conversations are *)
(* exported to the folder one call of _export_to_notes at a time.          *)
(***************************************************************************)
CidA == <<"U1">>
CidB == <<"q", "7">>
ConvIds == {CidA, CidB}

TitleOf(cid) == IF cid = CidA THEN <<"t", "a">> ELSE <<"t", "b">>

Digit(k) == <<"1", "2", "3", "4", "5", "6", "7", "8", "9">>[k]

\* the id and the text of the k-th message of a conversation
Mid(k) == <<"m", Digit(k)>>
Word(k) == <<"w", Digit(k)>>

\* the messages the archive may gain: a user message, a tool message with
\* text only (never rendered), and a user message that quotes a footer line
\* of conversation U1
SyncKinds == {"user", "tool", "quote"}

KindsOf(c) == IF c = CidA THEN {"user", "tool"} ELSE {"user", "quote"}

MessageOfKind(kind, k) ==
    CASE kind = "user" -> Message(Mid(k), "user", "text", "all", Word(k), FALSE)
      [] kind = "tool" -> Message(Mid(k), "tool", "text", "all", Word(k), FALSE)
      [] kind = "quote" ->
            Message(Mid(k), "user", "text", "all",
                    Word(k) \o <<" ", "U1", ":", "z">>, FALSE)

ConvOf(cid) == Conversation(cid, TitleOf(cid), convs[cid])

Idle == [cid |-> <<>>, overwrite |-> FALSE, pre |-> <<>>, existing |-> None,
         cursor |-> None, app |-> <<>>, plan |-> "none", folder |-> <<>>,
         ops |-> <<>>, outcome |-> "none"]

Failures == {"none", "read", "append", "write_mid"}

RenderNone == [pc |-> "idle", full |-> <<>>, wrapped |-> <<>>, cursor |-> None,
               app |-> <<>>, again |-> None]

\* nothing parsed yet
ParseNone == [pc |-> "idle", raised |-> FALSE, messages |-> <<>>]

ParseIdle ==
    /\ mapping = [key |-> "absent", nodes |-> <<>>]
    /\ parsed = ParseNone

\* no batch started
BatchNone ==
    [pc |-> "idle", index |-> <<>>, note_index |-> {}, pos |-> 0,
     outcomes |-> <<>>, exports |-> <<>>, ops |-> <<>>,
     conversation_ids |-> <<>>, processed |-> 0, failed |-> 0,
     archived |-> {}, result |-> 0]

\* no utility function called
UtilIdle ==
    /\ call = [fn |-> "none"]
    /\ ret = [pc |-> "idle"]

BatchIdle ==
    /\ source = <<>>
    /\ batch = BatchNone

RenderIdle ==
    /\ rconv = Conversation(<<>>, <<>>, <<>>)
    /\ rk = 0
    /\ rout = RenderNone

Init ==
    /\ convs = [c \in ConvIds |-> <<>>]
    /\ folder = <<>>
    /\ nextId = 1
    /\ passes = 0
    /\ everOverwrite = FALSE
    /\ last = Idle
    /\ RenderIdle
    /\ ParseIdle
    /\ BatchIdle
    /\ UtilIdle

\* the archive gains one message at the end of a conversation
AddMessage(c, kind) ==
    /\ Len(convs[CidA]) + Len(convs[CidB]) < MaxMsgs
    /\ kind \in KindsOf(c)
    /\ convs' = [convs EXCEPT ![c] = Append(@, MessageOfKind(kind, Len(@) + 1))]
    /\ last' = Idle
    /\ UNCHANGED <<folder, nextId, passes, everOverwrite, renderVars, parseVars,
                   batchVars, utilVars>>

\* one sync pass on conversation c
Sync(c, overwrite, fail) ==
    /\ passes < MaxPasses
    /\ LET r == ExportToNotes(folder, ConvOf(c), overwrite, nextId, fail)
       IN /\ last' = r
          /\ folder' = r.folder
          /\ nextId' = IF \E i \in 1..Len(r.ops) : r.ops[i].op = "create"
                       THEN nextId + 1 ELSE nextId
    /\ passes' = passes + 1
    /\ everOverwrite' = (everOverwrite \/ overwrite)
    /\ UNCHANGED <<convs, renderVars, parseVars, batchVars, utilVars>>

Next ==
    \/ \E c \in ConvIds, kind \in SyncKinds : AddMessage(c, kind)
    \/ \E c \in ConvIds, overwrite \in BOOLEAN, fail \in Failures :
          Sync(c, overwrite, fail)

Spec == Init /\ [][Next]_vars

\* the same machine over archives in which no message quotes a footer line
NextPlain ==
    \/ \E c \in ConvIds, kind \in {"user", "tool"} : AddMessage(c, kind)
    \/ \E c \in ConvIds, overwrite \in BOOLEAN, fail \in Failures :
          Sync(c, overwrite, fail)

SpecPlain == Init /\ [][NextPlain]_vars

(***************************************************************************)
(* The renderer on its own: a conversation rconv drawn from a bounded set  *)
(* is rendered in full, the cursor is read back from that render, and an   *)
(* append render is made twice, from the id of message rk (a foreign id    *)
(* when rk = 0) and from the cursor that was read back.                    *)
(***************************************************************************)
\* the shapes a message takes: a user text, an assistant text, a tool text
\* (not rendered), an assistant message routed to a tool (not rendered), a
\* model_editable_context message (not rendered), an assistant message of a
\* content type the renderer does not know
RenderKinds == {"user", "assistant", "tool", "routed", "memory", "unknown"}

\* the shapes a message id takes: plain, with a character html.escape
\* rewrites, with a blank inside
IdStyles == {"plain", "amp", "blank"}

IdOf(style, k) ==
    CASE style = "plain" -> Mid(k)
      [] style = "amp" -> <<"m", "&", Digit(k)>>
      [] style = "blank" -> <<"m", " ", Digit(k)>>

RenderMessage(kind, style, k) ==
    CASE kind = "user" ->
            Message(IdOf(style, k), "user", "text", "all", Word(k), FALSE)
      [] kind = "assistant" ->
            Message(IdOf(style, k), "assistant", "text", "all", Word(k), FALSE)
      [] kind = "tool" ->
            Message(IdOf(style, k), "tool", "text", "all", Word(k), FALSE)
      [] kind = "routed" ->
            Message(IdOf(style, k), "assistant", "code", "browser", Word(k), FALSE)
      [] kind = "memory" ->
            Message(IdOf(style, k), "assistant", "model_editable_context", "all",
                    Word(k), FALSE)
      [] kind = "unknown" ->
            Message(IdOf(style, k), "assistant", "future_type", "all", Word(k),
                    FALSE)

\* the message lists of length n in which every message has the id style
RenderLists(style, n) ==
    {[k \in 1..n |-> RenderMessage(kinds[k], style, k)] :
        kinds \in [1..n -> RenderKinds]}

RenderConversations ==
    {Conversation(cid, TitleOf(cid), msgs) :
        cid \in ConvIds,
        msgs \in UNION {RenderLists(style, n) : style \in IdStyles, n \in 0..MaxLen}}

\* an id no message carries
ForeignId == <<"z">>

CursorAt(conv, k) == IF k = 0 THEN ForeignId ELSE conv.messages[k].id

RenderInit ==
    /\ convs = [c \in ConvIds |-> <<>>]
    /\ folder = <<>>
    /\ nextId = 1
    /\ passes = 0
    /\ everOverwrite = FALSE
    /\ last = Idle
    /\ rconv \in RenderConversations
    /\ rk \in 0..Len(rconv.messages)
    /\ rout = RenderNone
    /\ ParseIdle
    /\ BatchIdle
    /\ UtilIdle

\* _generate_html, for the notes target and for the file target
DoGenerateHtml ==
    /\ rout.pc = "idle"
    /\ rout' = [rout EXCEPT !.pc = "rendered",
                            !.full = GenerateHtml(rconv, FALSE),
                            !.wrapped = GenerateHtml(rconv, TRUE)]
    /\ UNCHANGED <<syncVars, rconv, rk, parseVars, batchVars, utilVars>>

\* extract_last_synced_id on the full render
DoExtractLastSyncedId ==
    /\ rout.pc = "rendered"
    /\ rout' = [rout EXCEPT !.pc = "extracted",
                            !.cursor = ExtractLastSyncedId(rout.full)]
    /\ UNCHANGED <<syncVars, rconv, rk, parseVars, batchVars, utilVars>>

\* generate_append_html from the id of message rk and from the cursor read
\* back from the full render
DoGenerateAppendHtml ==
    /\ rout.pc = "extracted"
    /\ rout' = [rout EXCEPT
                  !.pc = "done",
                  !.app = GenerateAppendHtml(rconv, CursorAt(rconv, rk)),
                  !.again = IF rout.cursor.ok
                            THEN Some(GenerateAppendHtml(rconv, rout.cursor.val))
                            ELSE None]
    /\ UNCHANGED <<syncVars, rconv, rk, parseVars, batchVars, utilVars>>

RenderNext == DoGenerateHtml \/ DoExtractLastSyncedId \/ DoGenerateAppendHtml

RenderSpec == RenderInit /\ [][RenderNext]_vars

(***************************************************************************)
(* The renderer over messages of every shape the filters tell apart: the   *)
(* author role, the content type, the recipient of the metadata, and       *)
(* whether the aggregate_result of an execution_output holds an image.  A  *)
(* conversation holds one message of any shape, at any position, among     *)
(* user and assistant text messages addressed to all.                      *)
(***************************************************************************)
FilterRoles == {"user", "assistant", "tool"}

\* future_type is a content type no renderer is registered for
FilterTypes == {"text", "multimodal_text", "execution_output",
                "model_editable_context", "future_type"}

Recipients == {"all", "browser"}

FilterShapes ==
    {s \in [role : FilterRoles, ctype : FilterTypes, recipient : Recipients,
            img : BOOLEAN] : s.img => s.ctype = "execution_output"}

FilterMessage(s, k) ==
    Message(Mid(k), s.role, s.ctype, s.recipient, Word(k), s.img)

PlainShapes ==
    {s \in FilterShapes :
        s.role \in {"user", "assistant"} /\ s.ctype = "text" /\ s.recipient = "all"}

FilterLists(n) ==
    {[k \in 1..n |-> FilterMessage(IF k = p THEN s ELSE plain[k], k)] :
        p \in 1..n, s \in FilterShapes, plain \in [1..n -> PlainShapes]}

FilterConversations ==
    {Conversation(CidA, TitleOf(CidA), msgs) :
        msgs \in UNION {FilterLists(n) : n \in 0..MaxLen}}

FilterInit ==
    /\ convs = [c \in ConvIds |-> <<>>]
    /\ folder = <<>>
    /\ nextId = 1
    /\ passes = 0
    /\ everOverwrite = FALSE
    /\ last = Idle
    /\ rconv \in FilterConversations
    /\ rk \in 0..Len(rconv.messages)
    /\ rout = RenderNone
    /\ ParseIdle
    /\ BatchIdle
    /\ UtilIdle

FilterSpec == FilterInit /\ [][RenderNext]_vars

(***************************************************************************)
(* The archive parser (core/parser.py).  mapping is the mapping of one     *)
(* conversation record in its iteration order.  A node is [pos, message,   *)
(* content, ctime]: pos its place in the mapping; message says whether the *)
(* node wraps a message; content is "absent", "empty" (an empty object) or *)
(* "text"; ctime is the create_time of the message, [kind, val]: the key   *)
(* is absent, or holds null, or holds the number val.                      *)
(***************************************************************************)
Contents == {"absent", "empty", "text"}

Time(kind, val) == [kind |-> kind, val |-> val]

CreateTimes ==
    {Time("absent", 0), Time("null", 0), Time("number", 1), Time("number", 2)}

\* a node is a JSON object or (object FALSE) a string, number, list or null
NodeShapes ==
    [object : BOOLEAN, message : {FALSE}, content : {"absent"},
     ctime : {Time("absent", 0)}]
    \cup [object : {TRUE}, message : {TRUE}, content : Contents,
          ctime : CreateTimes]

Node(shape, k) ==
    [pos |-> k, object |-> shape.object, message |-> shape.message,
     content |-> shape.content, ctime |-> shape.ctime]

\* the mappings of n nodes
NodeLists(n) ==
    {[k \in 1..n |-> Node(shapes[k], k)] : shapes \in [1..n -> NodeShapes]}

\* the "mapping" key of the record: absent, null, or an object of nodes
Mappings(n) ==
    IF n = 0
    THEN {[key |-> k, nodes |-> <<>>] : k \in {"absent", "null", "object"}}
    ELSE [key : {"object"}, nodes : NodeLists(n)]

\* if not message_data: continue / if not content: continue
Survives(node) == node.message /\ node.content = "text"

\* message_data.get("create_time", 0.0): the default applies to a missing
\* key only, a null stays None
CreateTimeOf(node) ==
    IF node.ctime.kind = "absent" THEN Time("number", 0) ELSE node.ctime

\* the Message built for a surviving node
ParsedMessage(node) ==
    [id |-> <<"n", Digit(node.pos)>>, pos |-> node.pos,
     create_time |-> CreateTimeOf(node)]

RECURSIVE BuildMessages(_)
BuildMessages(nodes) ==
    IF nodes = <<>> THEN <<>>
    ELSE (IF Survives(Head(nodes)) THEN <<ParsedMessage(Head(nodes))>> ELSE <<>>)
         \o BuildMessages(Tail(nodes))

\* one step of the stable sort: m goes after every message whose
\* create_time is not greater
RECURSIVE InsertByTime(_, _)
InsertByTime(sorted, m) ==
    IF sorted = <<>> THEN <<m>>
    ELSE IF Head(sorted).create_time.val <= m.create_time.val
         THEN <<Head(sorted)>> \o InsertByTime(Tail(sorted), m)
         ELSE <<m>> \o sorted

\* messages.sort(key=lambda m: m.create_time) on comparable keys
RECURSIVE SortByTime(_)
SortByTime(msgs) ==
    IF msgs = <<>> THEN <<>>
    ELSE InsertByTime(SortByTime(SubSeq(msgs, 1, Len(msgs) - 1)),
                      msgs[Len(msgs)])

\* list.sort compares every element of a list of two or more: a None key
\* makes the comparison raise TypeError
SortRaises(msgs) ==
    Len(msgs) >= 2 /\ \E i \in 1..Len(msgs) : msgs[i].create_time.kind = "null"

\* node.get("message") on a node that is not an object: AttributeError
NodeRaises(nodes) == \E k \in 1..Len(nodes) : ~nodes[k].object

Raised == [pc |-> "done", raised |-> TRUE, messages |-> <<>>]

\* _extract_messages
ExtractMessages(nodes) ==
    LET msgs == BuildMessages(nodes)
    IN IF NodeRaises(nodes) \/ SortRaises(msgs)
       THEN Raised
       ELSE [pc |-> "done", raised |-> FALSE, messages |-> SortByTime(msgs)]

\* _extract_messages(json_data.get("mapping", {})): the default stands for
\* an absent key only; None.items() raises AttributeError
ExtractMessagesOf(m) ==
    IF m.key = "absent" THEN ExtractMessages(<<>>)
    ELSE IF m.key = "null" THEN Raised
    ELSE ExtractMessages(m.nodes)

ParseInit ==
    /\ convs = [c \in ConvIds |-> <<>>]
    /\ folder = <<>>
    /\ nextId = 1
    /\ passes = 0
    /\ everOverwrite = FALSE
    /\ last = Idle
    /\ RenderIdle
    /\ \E n \in 0..MaxNodes : mapping \in Mappings(n)
    /\ parsed = ParseNone
    /\ BatchIdle
    /\ UtilIdle

\* process_conversation on a record with this mapping
ProcessConversation ==
    /\ parsed.pc = "idle"
    /\ parsed' = ExtractMessagesOf(mapping)
    /\ UNCHANGED <<syncVars, renderVars, mapping, batchVars, utilVars>>

ParseNext == ProcessConversation

ParseSpec == ParseInit /\ [][ParseNext]_vars

(***************************************************************************)
(* The batch: sync_conversations over a source of files.                   *)
(*                                                                         *)
(* A file is "text" (its first non-blank character is neither { nor [),    *)
(* "dict" (one conversation object), "list" (a list of conversation        *)
(* objects) or "cut" (a list damaged after the objects shown: the stream   *)
(* parser reads them, json.load raises).  A conversation of the source is  *)
(* "good", "untimed" (no numeric top-level update_time), "unparsable"      *)
(* (process_conversation raises on it) or "unexportable" (the Note Store   *)
(* fails while writing it).  The folder holds one note per id of           *)
(* source.notes.  The exporter, whose batch interface (scan, export with a *)
(* known note, archive by native id) is not part of the sources at hand,   *)
(* is described by the Note Store operations it issues.                    *)
(***************************************************************************)
EntryKinds == {"good", "untimed", "unparsable", "unexportable"}

SourceCids == {"X", "Y"}

NoteOrder == <<"X", "Z">>

NoteCids == {NoteOrder[k] : k \in 1..Len(NoteOrder)}

FileKinds == {"text", "dict", "list", "cut"}

Entry(cid, kind) == [cid |-> cid, kind |-> kind]

\* the update_time of a conversation that has one
UpdateTimeOf(entry) == IF entry.cid = "X" THEN 2 ELSE 1

Timed(entry) == entry.kind # "untimed"

\* t conversations, at most one of them not good
FlatEntries(t) ==
    {[k \in 1..t |-> Entry(cids[k], IF k = p THEN kind ELSE "good")] :
        cids \in [1..t -> SourceCids], p \in 0..t, kind \in EntryKinds}

KindsFor(len) ==
    IF len = 0 THEN {"text", "list"}
    ELSE IF len = 1 THEN {"dict", "list", "cut"}
    ELSE {"list", "cut"}

RECURSIVE SumTo(_, _)
SumTo(lens, k) == IF k = 0 THEN 0 ELSE lens[k] + SumTo(lens, k - 1)

FilesOf(n, lens, kinds, flat) ==
    [k \in 1..n |->
        [kind |-> kinds[k],
         entries |-> SubSeq(flat, SumTo(lens, k - 1) + 1, SumTo(lens, k))]]

\* the sources of n files holding at most MaxEntries conversations
SourceFiles(n) ==
    UNION {UNION {{FilesOf(n, lens, kinds, flat) :
                      flat \in FlatEntries(SumTo(lens, n))} :
                  kinds \in {ks \in [1..n -> FileKinds] :
                                \A k \in 1..n : ks[k] \in KindsFor(lens[k])}} :
           lens \in {l \in [1..n -> 0..MaxEntries] : SumTo(l, n) <= MaxEntries}}

\* the batches over a source of n files
BatchSources(n) ==
    [files : SourceFiles(n), dry_run : BOOLEAN, overwrite : BOOLEAN,
     archive_deleted : BOOLEAN, notes : {{}, NoteCids}]

Item(update_time, f, i) == [update_time |-> update_time, file |-> f, index |-> i]

\* _extract_update_times_from_list: the objects that have an update_time,
\* each with its position in the list
RECURSIVE ExtractUpdateTimesFromList(_, _, _)
ExtractUpdateTimesFromList(entries, f, i) ==
    IF i > Len(entries) THEN <<>>
    ELSE (IF Timed(entries[i])
          THEN <<Item(UpdateTimeOf(entries[i]), f, i - 1)>> ELSE <<>>)
         \o ExtractUpdateTimesFromList(entries, f, i + 1)

\* an index that takes only the first object of a list
IndexFile_FirstOnly(file, f) ==
    IF file.kind = "text" THEN <<>>
    ELSE IF file.kind = "dict"
    THEN (IF Timed(file.entries[1])
          THEN <<Item(UpdateTimeOf(file.entries[1]), f, -1)>> ELSE <<>>)
    ELSE IF file.entries = <<>> THEN <<>>
    ELSE ExtractUpdateTimesFromList(<<file.entries[1]>>, f, 1)

\* the body of the loop of build_conversation_index: the items one file
\* adds; the items a damaged list yields before the parser raises stay
IndexFile(file, f) ==
    IF file.kind = "text" THEN <<>>
    ELSE IF file.kind = "dict"
    THEN (IF Timed(file.entries[1])
          THEN <<Item(UpdateTimeOf(file.entries[1]), f, -1)>> ELSE <<>>)
    ELSE ExtractUpdateTimesFromList(file.entries, f, 1)

RECURSIVE BuildConversationIndex(_, _)
BuildConversationIndex(files, f) ==
    IF f > Len(files) THEN <<>>
    ELSE IndexFile(files[f], f) \o BuildConversationIndex(files, f + 1)

RECURSIVE InsertByUpdateTime(_, _)
InsertByUpdateTime(sorted, item) ==
    IF sorted = <<>> THEN <<item>>
    ELSE IF Head(sorted).update_time <= item.update_time
         THEN <<Head(sorted)>> \o InsertByUpdateTime(Tail(sorted), item)
         ELSE <<item>> \o sorted

\* index.sort(key=lambda x: x[0])
RECURSIVE SortIndex(_)
SortIndex(index) ==
    IF index = <<>> THEN <<>>
    ELSE InsertByUpdateTime(SortIndex(SubSeq(index, 1, Len(index) - 1)),
                            index[Len(index)])

StoreOp(op, cid) == [op |-> op, cid |-> cid]

\* scan(folder): the conversation ids of the notes of the folder
ScanFolderNotes(src) ==
    [note_index |-> src.notes, ops |-> <<StoreOp("scan", "")>>]

\* a batch that scans the folder whatever the flags
NoteIndex_AlwaysScans(src) == ScanFolderNotes(src)

\* note_index = exporter.scan_folder_notes(folder) if not dry_run else {}
NoteIndex(src) ==
    IF ~src.dry_run THEN ScanFolderNotes(src)
    ELSE [note_index |-> {}, ops |-> <<>>]

\* exporter.export: a dry run prints and returns; otherwise the note of the
\* conversation is read and written, and a store failure raises
Export(entry, src) ==
    IF src.dry_run THEN [raised |-> FALSE, ops |-> <<>>]
    ELSE [raised |-> entry.kind = "unexportable",
          ops |-> <<StoreOp("export", entry.cid)>>]

\* an export that is never told of the note of the snapshot
ExistingOf_Forgets(cid, note_index) == FALSE

\* existing = note_index.get(conversation.id)
ExistingOf(cid, note_index) == cid \in note_index

EntryAt(files, item) ==
    IF item.index = -1 THEN files[item.file].entries[1]
    ELSE files[item.file].entries[item.index + 1]

\* json.load on the whole file
LoadRaises(file) == file.kind \in {"text", "cut"}

\* _process_indexed_conversation: conv_id "" stands for None
ProcessIndexedConversation(item, src, note_index) ==
    LET entry == EntryAt(src.files, item)
    IN IF LoadRaises(src.files[item.file]) \/ entry.kind = "unparsable"
       THEN [conv_id |-> "", success |-> FALSE, exported |-> FALSE, ops |-> <<>>]
       ELSE LET e == Export(entry, src)
            IN [conv_id |-> IF e.raised THEN "" ELSE entry.cid,
                success |-> ~e.raised, exported |-> TRUE, ops |-> e.ops]

\* a loop that stops at the first failure
NextPos_StopOnFailure(pos, success, n) == IF success THEN pos + 1 ELSE n + 1

\* for _update_time, file_path, conv_index in index
NextPos(pos, success, n) == pos + 1

Ids(seq) == {seq[k] : k \in 1..Len(seq)}

\* _archive_deleted_notes: the notes of the snapshot whose conversation id
\* is not among conversation_ids are moved to the archive
ArchiveDeletedNotes(conversation_ids, note_index) ==
    LET gone == SelectSeq(NoteOrder,
                    LAMBDA c : c \in note_index /\ c \notin Ids(conversation_ids))
    IN [archived |-> Ids(gone),
        ops |-> [k \in 1..Len(gone) |-> StoreOp("archive", gone[k])]]

ReturnCode(failed) == IF failed > 0 THEN 1 ELSE 0

BatchInit ==
    /\ convs = [c \in ConvIds |-> <<>>]
    /\ folder = <<>>
    /\ nextId = 1
    /\ passes = 0
    /\ everOverwrite = FALSE
    /\ last = Idle
    /\ RenderIdle
    /\ ParseIdle
    /\ \E n \in 0..MaxFiles : source \in BatchSources(n)
    /\ batch = BatchNone
    /\ UtilIdle

\* sync_conversations up to its loop: discovery, index, sort, scan
StartBatch ==
    /\ batch.pc = "idle"
    /\ batch' =
        IF source.files = <<>>
        THEN [batch EXCEPT !.pc = "done", !.result = 0]
        ELSE LET scan == NoteIndex(source)
             IN [batch EXCEPT
                    !.pc = "loop",
                    !.index = SortIndex(BuildConversationIndex(source.files, 1)),
                    !.note_index = scan.note_index,
                    !.ops = scan.ops,
                    !.pos = 1]
    /\ UNCHANGED <<syncVars, renderVars, parseVars, source, utilVars>>

\* one iteration of the loop of sync_conversations
ProcessNext ==
    /\ batch.pc = "loop"
    /\ batch.pos <= Len(batch.index)
    /\ LET item == batch.index[batch.pos]
           r == ProcessIndexedConversation(item, source, batch.note_index)
       IN batch' =
            [batch EXCEPT
                !.pos = NextPos(batch.pos, r.success, Len(batch.index)),
                !.outcomes = Append(@, [file |-> item.file, index |-> item.index,
                                        outcome |-> IF r.success THEN "synced"
                                                    ELSE "failed"]),
                !.exports = IF r.exported
                            THEN Append(@, [file |-> item.file,
                                            index |-> item.index,
                                            cid |-> EntryAt(source.files, item).cid,
                                            existing |->
                                                ExistingOf(
                                                    EntryAt(source.files, item).cid,
                                                    batch.note_index)])
                            ELSE @,
                !.ops = @ \o r.ops,
                !.conversation_ids = IF r.conv_id # "" THEN Append(@, r.conv_id)
                                     ELSE @,
                !.processed = IF r.success THEN @ + 1 ELSE @,
                !.failed = IF r.success THEN @ ELSE @ + 1]
    /\ UNCHANGED <<syncVars, renderVars, parseVars, source, utilVars>>

\* sync_conversations after its loop: the archive step and the exit code
FinishBatch ==
    /\ batch.pc = "loop"
    /\ batch.pos > Len(batch.index)
    /\ LET arch == IF source.archive_deleted /\ ~source.dry_run
                   THEN ArchiveDeletedNotes(batch.conversation_ids,
                                            batch.note_index)
                   ELSE [archived |-> {}, ops |-> <<>>]
       IN batch' = [batch EXCEPT !.pc = "done",
                                 !.archived = arch.archived,
                                 !.ops = @ \o arch.ops,
                                 !.result = ReturnCode(batch.failed)]
    /\ UNCHANGED <<syncVars, renderVars, parseVars, source, utilVars>>

BatchNext == StartBatch \/ ProcessNext \/ FinishBatch

BatchSpec == BatchInit /\ [][BatchNext]_vars

(***************************************************************************)
(* The markdown pipeline (exporters/handlers/utils).  The markdown-it      *)
(* parser turns the text into a stream of tokens, and the renderer, with   *)
(* the rules this program installs, turns each token into HTML.  A token   *)
(* is [type, tag, nesting, block, hidden, info]: type is markdown-it's     *)
(* type without its _open/_close suffix, nesting 1 opens, -1 closes and 0  *)
(* stands alone, info is the literal number of an ordered list item.  The  *)
(* inline children of a block are written in line after its opening token. *)
(* The streams drawn are the sequences of at most MaxTokens tokens with    *)
(* one token of any kind among paragraph and text tokens, and every stream *)
(* of well-nested lists of at most MaxItems items.                         *)
(* HTML is a sequence of elements [k, name, nesting, num]: a tag, a run of *)
(* text, a newline, or the spacer marker of add_block_spacing.             *)
(***************************************************************************)
El(k, name, nesting, num) == [k |-> k, name |-> name, nesting |-> nesting, num |-> num]

Tag(name, nesting) == El("tag", name, nesting, 0)

TextEl(name) == El("text", name, 0, 0)

\* the prefix of the k-th item of an ordered list, "k.\t"
NumberEl(n) == El("text", "number", 0, n)

\* the prefix of an item of an unordered list
BulletEl == TextEl("bullet")

Lf == El("ws", "\n", 0, 0)

Marker == El("marker", "SPACER", 0, 0)

Tok(type, tag, nesting, block) ==
    [type |-> type, tag |-> tag, nesting |-> nesting, block |-> block,
     hidden |-> FALSE, info |-> 0]

NoToken == Tok("none", "", 0, TRUE)

Headings == {"h1", "h2", "h3", "h4", "h5", "h6"}

\* the block tokens that come in pairs, with the tag markdown-it gives them
BlockPairs ==
    {<<"paragraph", "p">>, <<"blockquote", "blockquote">>,
     <<"bullet_list", "ul">>, <<"ordered_list", "ol">>, <<"list_item", "li">>,
     <<"table", "table">>, <<"thead", "thead">>, <<"tbody", "tbody">>,
     <<"tr", "tr">>, <<"th", "th">>, <<"td", "td">>}
    \cup {<<"heading", h>> : h \in Headings}

InlinePairs == {<<"strong", "strong">>, <<"em", "em">>, <<"link", "a">>}

BlockSingles == {<<"hr", "hr">>, <<"code_block", "code">>, <<"fence", "code">>}

InlineSingles ==
    {<<"text", "">>, <<"math", "">>, <<"code_inline", "code">>,
     <<"image", "img">>, <<"softbreak", "br">>, <<"hardbreak", "br">>}

\* the paragraph tokens of a tight list are hidden
HiddenParagraphs ==
    {[Tok("paragraph", "p", n, TRUE) EXCEPT !.hidden = TRUE] : n \in {1, -1}}

\* the tokens the parser emits with the table rule on and the html rules off
TokenKinds ==
    {Tok(p[1], p[2], n, TRUE) : p \in BlockPairs, n \in {1, -1}}
    \cup {Tok(p[1], p[2], n, FALSE) : p \in InlinePairs, n \in {1, -1}}
    \cup {Tok(p[1], p[2], 0, TRUE) : p \in BlockSingles}
    \cup {Tok(p[1], p[2], 0, FALSE) : p \in InlineSingles}
    \cup HiddenParagraphs

PlainTokens ==
    {Tok("paragraph", "p", 1, TRUE), Tok("paragraph", "p", -1, TRUE),
     Tok("text", "", 0, FALSE)}

\* n tokens: one of any kind, at any place, among plain ones
FlatStreams(n) ==
    IF n = 0 THEN {<<>>}
    ELSE {[k \in 1..n |-> IF k = at THEN t ELSE plain[k]] :
            at \in 1..n, t \in TokenKinds, plain \in [1..n -> PlainTokens]}

ListOpen(kind) == Tok(kind.type, kind.tag, 1, TRUE)

ListClose(kind) == Tok(kind.type, kind.tag, -1, TRUE)

ItemOpen(kind) == [Tok("list_item", "li", 1, TRUE) EXCEPT !.info = kind.start]

ItemClose == Tok("list_item", "li", -1, TRUE)

\* the list tokens written short, for the enumeration of the streams
ListCodes == {"ul", "ol", "ol5"}

KindOf(code) ==
    CASE code = "ul" -> [type |-> "bullet_list", tag |-> "ul", start |-> 0]
      [] code = "ol" -> [type |-> "ordered_list", tag |-> "ol", start |-> 1]
      [] code = "ol5" -> [type |-> "ordered_list", tag |-> "ol", start |-> 5]

\* ListStreams(m): the well-nested streams of lists with m items in all;
\* ItemStreams(code, n): the streams of items of a list of that kind with
\* n items in all, their nested lists included.  An element is a pair of
\* the kind of list and what happens: the list or an item opens or closes,
\* or the text of an item
RECURSIVE ListStreams(_), ItemStreams(_, _)
ListStreams(m) ==
    IF m = 0 THEN {<<>>}
    ELSE UNION {LET inside == ItemStreams(code, j)
                    after == ListStreams(m - j)
                IN {<<<<code, "open">>>> \o items \o <<<<code, "close">>>> \o rest :
                        items \in inside, rest \in after} :
                code \in ListCodes, j \in 1..m}

ItemStreams(code, n) ==
    IF n = 0 THEN {<<>>}
    ELSE UNION {LET inside == ListStreams(k - 1)
                    after == ItemStreams(code, n - k)
                IN {<<<<code, "item">>, <<code, "text">>>> \o nested
                        \o <<<<code, "/item">>>> \o rest :
                        nested \in inside, rest \in after} :
                k \in 1..n}

\* the token an element of a stream stands for
TokenOf(e) ==
    CASE e[2] = "open" -> ListOpen(KindOf(e[1]))
      [] e[2] = "close" -> ListClose(KindOf(e[1]))
      [] e[2] = "item" -> ItemOpen(KindOf(e[1]))
      [] e[2] = "/item" -> ItemClose
      [] e[2] = "text" -> Tok("text", "", 0, FALSE)

TokensOf(stream) == [k \in 1..Len(stream) |-> TokenOf(stream[k])]

\* a tag map that leaves the paragraphs as they are
TagMap_KeepsParagraph(tag) ==
    CASE tag = "strong" -> "b"
      [] tag = "em" -> "i"
      [] tag = "code" -> "tt"
      [] OTHER -> tag

\* tag_map = {"p": "div", "strong": "b", "em": "i", "code": "tt"}
TagMap(tag) ==
    CASE tag = "p" -> "div"
      [] tag = "strong" -> "b"
      [] tag = "em" -> "i"
      [] tag = "code" -> "tt"
      [] OTHER -> tag

\* markdown-it's renderToken on a token whose tag has been mapped: nothing
\* for a hidden token; a block tag is followed by a newline unless it opens
\* on inline content, a hidden token or its own closing tag
RenderToken(token, next, tag) ==
    IF token.hidden THEN <<>>
    ELSE <<Tag(tag, token.nesting)>> \o
         (IF /\ token.block
             /\ ~(/\ token.nesting = 1
                  /\ next.type # "none"
                  /\ \/ ~next.block
                     \/ next.hidden
                     \/ (next.nesting = -1 /\ next.tag = token.tag))
          THEN <<Lf>> ELSE <<>>)

Top(stack) == stack[Len(stack)]

Pop(stack) == SubSeq(stack, 1, Len(stack) - 1)

\* a list handler that keeps one counter for all the open lists
HandleListToken_SharedCounter(token, stack) ==
    IF token.tag \in {"ul", "ol"}
    THEN [out |-> <<>>,
          stack |-> IF token.nesting = 1
                    THEN Append(stack, [tag |-> token.tag,
                                        counter |-> IF stack = <<>> THEN 0
                                                    ELSE Top(stack).counter])
                    ELSE IF stack # <<>> THEN Pop(stack) ELSE stack]
    ELSE IF token.nesting # 1
    THEN [out |-> <<Tag("div", -1), Lf>>, stack |-> stack]
    ELSE IF stack # <<>> /\ Top(stack).tag = "ol"
    THEN [out |-> <<Tag("div", 1), NumberEl(Top(stack).counter + 1)>>,
          stack |-> [k \in 1..Len(stack) |->
                        [stack[k] EXCEPT !.counter = Top(stack).counter + 1]]]
    ELSE [out |-> <<Tag("div", 1), BulletEl>>, stack |-> stack]

\* _handle_list_token: stack is list_state
HandleListToken(token, stack) ==
    IF token.tag \in {"ul", "ol"}
    THEN [out |-> <<>>,
          stack |-> IF token.nesting = 1
                    THEN Append(stack, [tag |-> token.tag, counter |-> 0])
                    ELSE IF stack # <<>> THEN Pop(stack) ELSE stack]
    ELSE IF token.nesting # 1
    THEN [out |-> <<Tag("div", -1), Lf>>, stack |-> stack]
    ELSE IF stack # <<>> /\ Top(stack).tag = "ol"
    THEN [out |-> <<Tag("div", 1), NumberEl(Top(stack).counter + 1)>>,
          stack |-> [stack EXCEPT ![Len(stack)].counter = @ + 1]]
    ELSE [out |-> <<Tag("div", 1), BulletEl>>, stack |-> stack]

\* the two pipelines: markdown_to_html of handlers/utils/markdown.py, and
\* _markdown_to_apple_notes of html_renderer.py, which has no list handler
\* and no rule for inline code
Pipelines == {"markdown_to_html", "_markdown_to_apple_notes"}

\* one token through the renderer: the rule of its type if it has one,
\* custom_render_token otherwise
RenderOne(token, next, stack, pipeline) ==
    CASE token.type \in {"text", "math"} ->
            [out |-> <<TextEl(token.type)>>, stack |-> stack]
      [] token.type = "softbreak" -> [out |-> <<Lf>>, stack |-> stack]
      [] token.type = "hardbreak" ->
            [out |-> <<Tag("br", 0), Lf>>, stack |-> stack]
      [] token.type \in {"code_block", "fence"} ->
            [out |-> <<Tag("pre", 1), TextEl("code"), Tag("pre", -1), Lf>>,
             stack |-> stack]
      [] token.type = "code_inline" ->
            LET tag == IF pipeline = "markdown_to_html" THEN "tt" ELSE "code"
            IN [out |-> <<Tag(tag, 1), TextEl("code"), Tag(tag, -1)>>,
                stack |-> stack]
      [] token.type = "image" ->
            [out |-> <<Tag("div", 1), Tag("img", 0), Tag("div", -1), Lf>>,
             stack |-> stack]
      [] OTHER ->
            IF pipeline = "markdown_to_html" /\ token.tag \in {"ul", "ol", "li"}
            THEN HandleListToken(token, stack)
            ELSE [out |-> RenderToken(token, next, TagMap(token.tag)),
                  stack |-> stack]

\* md.render: the tokens in order, list_state carried along
RECURSIVE RenderStream(_, _, _, _)
RenderStream(tokens, i, stack, pipeline) ==
    IF i > Len(tokens) THEN [out |-> <<>>, stack |-> stack]
    ELSE LET next == IF i < Len(tokens) THEN tokens[i + 1] ELSE NoToken
             one == RenderOne(tokens[i], next, stack, pipeline)
             rest == RenderStream(tokens, i + 1, one.stack, pipeline)
         IN [out |-> one.out \o rest.out, stack |-> rest.stack]

(***************************************************************************)
(* add_block_spacing (handlers/utils/spacing.py).                          *)
(***************************************************************************)
\* div|ul|ol|blockquote|pre|table|h[1-6]
SpacingBlocks == {"div", "ul", "ol", "blockquote", "pre", "table"} \cup Headings

IsWs(e) == e.k = "ws"

IsClosingBlock(e) == e.k = "tag" /\ e.nesting = -1 /\ e.name \in SpacingBlocks

IsOpeningBlock(e) == e.k = "tag" /\ e.nesting = 1 /\ e.name \in SpacingBlocks

\* the first index from i on whose element is not whitespace
RECURSIVE SkipWs(_, _)
SkipWs(h, i) == IF i <= Len(h) /\ IsWs(h[i]) THEN SkipWs(h, i + 1) ELSE i

\* (?:<br\s*/?>|\s)*
RECURSIVE SkipBreaks(_, _)
SkipBreaks(h, i) ==
    IF i <= Len(h) /\ (IsWs(h[i]) \/ h[i] = Tag("br", 0))
    THEN SkipBreaks(h, i + 1) ELSE i

Drop(h, n) == SubSeq(h, n + 1, Len(h))

\* where the match of the clean-up pattern that starts at h[1] ends, 0 for
\* no match: (<(?:li|blockquote)[^>]*>)\s*<div>(?:<br\s*/?>|\s)*</div>\s*
EmptyDivEnd(h) ==
    IF ~(h[1].k = "tag" /\ h[1].nesting = 1 /\ h[1].name \in {"li", "blockquote"})
    THEN 0
    ELSE LET d == SkipWs(h, 2)
         IN IF ~(d <= Len(h) /\ h[d] = Tag("div", 1)) THEN 0
            ELSE LET c == SkipBreaks(h, d + 1)
                 IN IF ~(c <= Len(h) /\ h[c] = Tag("div", -1)) THEN 0
                    ELSE SkipWs(h, c + 1) - 1

\* the first re.sub: the empty div after an opening li or blockquote goes
RECURSIVE CleanEmptyDivs(_)
CleanEmptyDivs(h) ==
    IF h = <<>> THEN <<>>
    ELSE LET end == EmptyDivEnd(h)
         IN IF end > 0
            THEN <<h[1], Lf>> \o CleanEmptyDivs(Drop(h, end))
            ELSE <<h[1]>> \o CleanEmptyDivs(Tail(h))

\* where the match of block_pattern that starts at h[1] ends, 0 for none
BlockPairEnd(h) ==
    IF ~IsClosingBlock(h[1]) THEN 0
    ELSE LET o == SkipWs(h, 2)
         IN IF o <= Len(h) /\ IsOpeningBlock(h[o]) THEN o ELSE 0

\* a pass that leaves the adjacent blocks as they are
SpacingPass_Nothing(h) == h

\* block_pattern.sub(add_spacer, html): one pass, leftmost matches first,
\* the scan going on after each match
RECURSIVE SpacingPass(_)
SpacingPass(h) ==
    IF h = <<>> THEN <<>>
    ELSE LET end == BlockPairEnd(h)
         IN IF end > 0
            THEN <<h[1], Lf, Marker, Lf, h[end]>> \o SpacingPass(Drop(h, end))
            ELSE <<h[1]>> \o SpacingPass(Tail(h))

\* while prev != html: prev = html; html = block_pattern.sub(...)
RECURSIVE SpacingLoop(_, _)
SpacingLoop(prev, h) == IF prev = h THEN h ELSE SpacingLoop(h, SpacingPass(h))

\* html.replace(spacer_marker, "<div><br></div>")
RECURSIVE ReplaceMarkers(_)
ReplaceMarkers(h) ==
    IF h = <<>> THEN <<>>
    ELSE (IF Head(h) = Marker
          THEN <<Tag("div", 1), Tag("br", 0), Tag("div", -1)>>
          ELSE <<Head(h)>>)
         \o ReplaceMarkers(Tail(h))

AddBlockSpacing(h) == ReplaceMarkers(SpacingLoop(<<>>, CleanEmptyDivs(h)))

\* markdown_to_html / _markdown_to_apple_notes on the tokens of a text
MarkdownToHtml(tokens, pipeline) ==
    LET r == RenderStream(tokens, 1, <<>>, pipeline)
    IN [pc |-> "done", html |-> AddBlockSpacing(r.out), list_state |-> r.stack]

MarkdownInit ==
    /\ convs = [c \in ConvIds |-> <<>>]
    /\ folder = <<>>
    /\ nextId = 1
    /\ passes = 0
    /\ everOverwrite = FALSE
    /\ last = Idle
    /\ RenderIdle
    /\ ParseIdle
    /\ BatchIdle
    /\ \/ \E n \in 0..MaxTokens : \E tokens \in FlatStreams(n) :
            \E fn \in Pipelines : call = [fn |-> fn, tokens |-> tokens]
       \/ \E m \in 1..MaxItems : \E stream \in ListStreams(m) :
            \E fn \in Pipelines : call = [fn |-> fn, tokens |-> TokensOf(stream)]
    /\ ret = [pc |-> "idle"]

DoMarkdownToHtml ==
    /\ ret.pc = "idle"
    /\ call.fn \in Pipelines
    /\ ret' = MarkdownToHtml(call.tokens, call.fn)
    /\ UNCHANGED <<syncVars, renderVars, parseVars, batchVars, call>>

MarkdownNext == DoMarkdownToHtml

MarkdownSpec == MarkdownInit /\ [][MarkdownNext]_vars

(***************************************************************************)
(* Properties of one sync pass.  last describes the pass that has just     *)
(* run; the archive has not changed since, so ConvOf(last.cid) is the      *)
(* conversation the pass exported.                                         *)
(***************************************************************************)
Ran == last.outcome # "none"

LastConv == ConvOf(last.cid)

NumOps(kind) == Cardinality({i \in 1..Len(last.ops) : last.ops[i].op = kind})

\* the note of the folder with store-native id nid
NoteById(f, nid) == f[CHOOSE i \in 1..Len(f) : f[i].nid = nid]

HasNote(f, nid) == \E i \in 1..Len(f) : f[i].nid = nid

\* the conversation id has the shape the footer regular expression expects
IsUuidShaped(cid) == Len(cid) = 1 /\ cid[1] \in UuidAtoms

\* s ends with t
EndsWith(s, t) ==
    Len(t) <= Len(s) /\ SubSeq(s, Len(s) - Len(t) + 1, Len(s)) = t

\* C1: with overwrite never requested and conversations that only grow at
\* their end, a stored note body contains the rendered content of each
\* message of its conversation at most once.
C1_NoDuplicateContent ==
    ~everOverwrite =>
        \A i \in 1..Len(folder) :
            \A k \in 1..Len(convs[folder[i].owner]) :
                LET m == convs[folder[i].owner][k]
                IN ~Skipped(m) =>
                      CountOcc(folder[i].body, RenderMessageContent(m)) <= 1

\* C2: a note exists, incremental sync is asked for, a cursor is recovered
\* and the append body is non-empty: exactly one append is submitted, and
\* when it succeeds there is no delete and no create.
C2_Case ==
    /\ Ran
    /\ last.existing.ok
    /\ ~last.overwrite
    /\ HasCursor(last.cursor)
    /\ GenerateAppendHtml(LastConv, last.cursor.val) # <<>>

C2_OneAppend ==
    C2_Case =>
        /\ NumOps("append") = 1
        /\ last.ops[1].op = "append"
        /\ last.ops[1].ok => (NumOps("delete") = 0 /\ NumOps("create") = 0)

C2_Witness ==
    /\ C2_Case
    /\ Len(last.ops) = 1
    /\ last.ops[1].op = "append"
    /\ last.ops[1].ok

\* C3: a note exists, incremental sync is asked for, a cursor is recovered
\* and no message follows the cursor: the pass succeeds with no append, no
\* delete and no create, and the folder is as it was.
C3_Case ==
    /\ Ran
    /\ last.existing.ok
    /\ ~last.overwrite
    /\ HasCursor(last.cursor)
    /\ NewMessages(convs[last.cid], last.cursor.val) = <<>>

C3_UpToDateNoWork ==
    C3_Case =>
        /\ last.outcome = "synced"
        /\ last.ops = <<>>
        /\ folder = last.pre

C3_Witness ==
    /\ C3_Case
    /\ convs[last.cid] # <<>>
    /\ last.ops = <<>>
    /\ folder = last.pre

\* the pass went on to the full render and write_note
FellBack == last.plan = "write"

AppendFailed == \E i \in 1..Len(last.ops) :
                    last.ops[i].op = "append" /\ ~last.ops[i].ok

\* the notes that the exports of other conversations created are as they were
OtherNotesKept ==
    \A i \in 1..Len(last.pre) :
        last.pre[i].owner # last.cid =>
            \E j \in 1..Len(folder) : folder[j] = last.pre[i]

C4_FallbackIff ==
    (Ran /\ last.existing.ok /\ ~last.overwrite) =>
        (FellBack <=> (~HasCursor(last.cursor) \/ AppendFailed))

C4_FallbackLocal ==
    (Ran /\ last.existing.ok /\ ~last.overwrite /\ FellBack) => OtherNotesKept

C4_NoCursorWithoutUuid ==
    (Ran /\ last.existing.ok /\ ~last.overwrite /\ ~IsUuidShaped(last.cid)) =>
        ~HasCursor(last.cursor)

\* C4: with a note found and incremental sync asked for, the pass falls back
\* to overwrite if and only if no cursor is recovered or the append fails; no
\* cursor is ever recovered for a conversation id that is not UUID-shaped;
\* and the fallback leaves every other note of the folder alone.
C4_Fallback == C4_FallbackIff /\ C4_FallbackLocal /\ C4_NoCursorWithoutUuid

\* a note is found for the conversation and overwrite is requested
C5_Case ==
    /\ Ran
    /\ last.overwrite
    /\ FirstMatch(last.pre, last.cid) > 0
    /\ last.outcome = "synced"

\* the pass deletes exactly the note found, then creates a note whose body is
\* the full render, and appends nothing; by is the way the deleted note is
\* addressed
C5_DeleteThenCreate(by) ==
    /\ Len(last.ops) = 2
    /\ last.ops[1] =
          Op("delete", last.pre[FirstMatch(last.pre, last.cid)].nid, TRUE, by)
    /\ last.ops[2].op = "create"
    /\ ~HasNote(folder, last.ops[1].nid)
    /\ HasNote(folder, last.ops[2].nid)
    /\ NoteById(folder, last.ops[2].nid).body = GenerateHtml(LastConv, FALSE)

C6_Case ==
    /\ Ran
    /\ FirstMatch(last.pre, last.cid) = 0
    /\ last.outcome = "synced"

\* exactly one create with the full render, no delete and no append; the
\* folder is the old folder with the new note at its end
C6_OneCreate ==
    /\ Len(last.ops) = 1
    /\ last.ops[1].op = "create"
    /\ folder = Append(last.pre,
                       Note(last.ops[1].nid, GenerateHtml(LastConv, FALSE),
                            last.cid))

\* a note of the folder has a footer that carries the conversation id
FooterCarriesId ==
    \E i \in 1..Len(folder) :
        Contains(folder[i].body, <<FooterOpen>> \o Escape(last.cid) \o <<":">>)

C7_CursorAfterAppend ==
    (Ran /\ last.plan = "appended") =>
        ExtractLastSyncedId(Strip(NoteById(folder, last.ops[1].nid).body))
            = Some(FooterMessage(LastConv))

(***************************************************************************)
(* Properties of the renderer, over RenderSpec.                            *)
(***************************************************************************)
NumMessages == Len(rconv.messages)

\* the positions of the messages the renderer does not skip
Shown == {i \in 1..NumMessages : ~Skipped(rconv.messages[i])}

\* an id the footer carries unchanged and the extraction reads back whole
PlainId(id) ==
    /\ id # <<>>
    /\ Escape(id) = id
    /\ \A i \in 1..Len(id) : IsIdChar(id[i])

\* the footer is read back as the id of the last message, and the append
\* render from it is empty
ReadBackLast ==
    /\ rout.cursor = Some(rconv.messages[NumMessages].id)
    /\ rout.again = Some(<<>>)

\* C8 as stated: for every conversation with at least one message, the
\* cursor read from the footer of the full render is the id of the last
\* message, and the append render from that cursor is empty.
C8_RoundTrip ==
    (rout.pc = "done" /\ NumMessages >= 1) => ReadBackLast

\* C8 amended: the same, for a conversation whose id is UUID-shaped and whose
\* last message id is non-empty and has no whitespace and no character that
\* html.escape rewrites.
C8_RoundTripPlainIds ==
    (/\ rout.pc = "done"
     /\ NumMessages >= 1
     /\ IsUuidShaped(rconv.id)
     /\ PlainId(rconv.messages[NumMessages].id)) => ReadBackLast

C8_Witness ==
    /\ rout.pc = "done"
    /\ NumMessages >= 2
    /\ IsUuidShaped(rconv.id)
    /\ PlainId(rconv.messages[NumMessages].id)
    /\ Skipped(rconv.messages[NumMessages])
    /\ rout.again = Some(<<>>)

\* the number of fragments equal to that of message j among the messages
\* after position k that the renderer does not skip
Expected(j, k) ==
    Cardinality({i \in Shown : i > k
                    /\ Section(rconv.messages[i]) = Section(rconv.messages[j])})

RECURSIVE SumLen(_)
SumLen(S) ==
    IF S = {} THEN 0
    ELSE LET i == CHOOSE x \in S : TRUE
         IN Len(Section(rconv.messages[i])) + SumLen(S \ {i})

\* the append render holds the fragment of each rendered message after k,
\* nothing of the messages up to k, nothing else, and ends with the footer
\* of the last message
AppendsExactly(app, k) ==
    /\ \A j \in 1..NumMessages :
          CountOcc(app, Section(rconv.messages[j])) = Expected(j, k)
    /\ EndsWith(app, Footer(rconv.id, rconv.messages[NumMessages].id))
    /\ Len(app) = SumLen({i \in Shown : i > k})
                  + Len(Footer(rconv.id, rconv.messages[NumMessages].id))

\* C9 as stated: with message K of N as the cursor, the append render holds
\* the fragments of the rendered messages K+1..N and of no other message,
\* and a footer at its end with the id of message N.
C9_AppendAfterCursor ==
    (rout.pc = "done" /\ rk >= 1) => AppendsExactly(rout.app, rk)

\* C9 amended: the same for K < N; with K = N the append render is the empty
\* string, without a footer.
C9_AppendAfterCursorBelowLast ==
    /\ (rout.pc = "done" /\ rk >= 1 /\ rk < NumMessages) =>
            AppendsExactly(rout.app, rk)
    /\ (rout.pc = "done" /\ rk >= 1 /\ rk = NumMessages) => rout.app = <<>>

C9_Witness ==
    /\ rout.pc = "done"
    /\ rk = 1
    /\ NumMessages >= 2
    /\ Shown = 1..NumMessages
    /\ rout.app # <<>>

\* the id of the last message the renderer does not skip
LastShownId ==
    rconv.messages[CHOOSE i \in Shown : \A j \in Shown : j <= i].id

\* C10 as stated: every full render ends with the footer
\* {conversation_id}:{last_message_id}, where last_message_id is the id of
\* the last rendered message.
C10_FooterLastRendered ==
    rout.pc # "idle" =>
        /\ Shown # {}
        /\ EndsWith(rout.full, Footer(rconv.id, LastShownId))

\* C10 amended: every full render of a conversation with at least one
\* message ends with the footer that carries the id of the last message of
\* the conversation, rendered or not; for the file target the footer is
\* followed only by the closing body and html tags; a conversation without
\* messages gets no footer.
C10_FooterLastExisting ==
    rout.pc # "idle" =>
        /\ NumMessages >= 1 =>
              EndsWith(rout.full,
                       Footer(rconv.id, rconv.messages[NumMessages].id))
        /\ NumMessages = 0 => ~Contains(rout.full, <<FooterOpen>>)
        /\ rout.wrapped = <<"<html>", "<body>">> \o rout.full
                          \o <<"</body>", "</html>">>

C10_Witness ==
    /\ rout.pc = "rendered"
    /\ NumMessages >= 2
    /\ Shown # {}
    /\ Skipped(rconv.messages[NumMessages])
    /\ EndsWith(rout.full, Footer(rconv.id, rconv.messages[NumMessages].id))

(***************************************************************************)
(* Properties of the filters, over FilterSpec.  A message contributes to a *)
(* render when the render differs from the render of the conversation      *)
(* without that message, the footer left aside.                            *)
(***************************************************************************)
\* the conversation without its message j
Without(j) ==
    Conversation(rconv.id, rconv.title,
                 SubSeq(rconv.messages, 1, j - 1)
                 \o SubSeq(rconv.messages, j + 1, NumMessages))

\* a render up to its footer line
BeforeFooter(html) ==
    LET at == {i \in 1..Len(html) : html[i] = FooterOpen}
    IN IF at = {} THEN html
       ELSE SubSeq(html, 1, (CHOOSE i \in at : \A k \in at : k <= i) - 1)

ContributesFull(j) ==
    BeforeFooter(rout.full) # BeforeFooter(GenerateHtml(Without(j), FALSE))

\* for a message after the cursor rk
ContributesAppend(j) ==
    BeforeFooter(rout.app)
        # BeforeFooter(GenerateAppendHtml(Without(j), CursorAt(rconv, rk)))

\* the text of message j shows in neither render
TextAbsent(j) ==
    /\ ~Contains(rout.full, Word(j))
    /\ ~Contains(rout.app, Word(j))

\* C11: a message whose recipient is not "all" contributes neither a heading
\* nor a content fragment to the full render or to the append render,
\* whatever its content type and author role.
C11_RoutedNeverRendered ==
    rout.pc = "done" =>
        \A j \in 1..NumMessages :
            rconv.messages[j].recipient # "all" =>
                /\ ~ContributesFull(j)
                /\ j > rk => ~ContributesAppend(j)
                /\ TextAbsent(j)

C11_Witness ==
    /\ rout.pc = "done"
    /\ NumMessages = 2
    /\ rk = 0
    /\ rconv.messages[1].recipient = "all"
    /\ rconv.messages[1].role = "user"
    /\ rconv.messages[2].recipient # "all"
    /\ rconv.messages[2].role = "tool"
    /\ rconv.messages[2].ctype = "multimodal_text"
    /\ Contains(rout.app, Word(1))
    /\ TextAbsent(2)

\* the tool messages the renderer shows, as the claim has them
ToolVisible(m) ==
    \/ m.ctype = "multimodal_text"
    \/ (m.ctype = "execution_output" /\ m.img)

\* message j contributes to the full render, and to the append render when
\* it comes after the cursor, exactly when shown holds
RenderedIff(j, shown) ==
    /\ ContributesFull(j) <=> shown
    /\ j > rk => (ContributesAppend(j) <=> shown)

\* a model_editable_context message contributes nothing, not even a heading
MemoryNeverRendered ==
    \A j \in 1..NumMessages :
        rconv.messages[j].ctype = "model_editable_context" =>
            (RenderedIff(j, FALSE) /\ TextAbsent(j))

\* C12 as stated: a tool-authored message is rendered if and only if its
\* content type is multimodal_text, or execution_output with at least one
\* image in its aggregate_result; a model_editable_context message is never
\* rendered, not even as a heading, in the full or the append render.
C12_ToolVisibleIff ==
    rout.pc = "done" =>
        /\ \A j \in 1..NumMessages :
              rconv.messages[j].role = "tool" =>
                  RenderedIff(j, ToolVisible(rconv.messages[j]))
        /\ MemoryNeverRendered

\* C12 amended: the same for the tool-authored messages addressed to all; a
\* tool-authored message with another recipient is never rendered.
C12_ToolVisibleIffToAll ==
    rout.pc = "done" =>
        /\ \A j \in 1..NumMessages :
              rconv.messages[j].role = "tool" =>
                  RenderedIff(j, /\ ToolVisible(rconv.messages[j])
                                 /\ rconv.messages[j].recipient = "all")
        /\ MemoryNeverRendered

C12_Witness ==
    /\ rout.pc = "done"
    /\ NumMessages = 2
    /\ rk = 1
    /\ rconv.messages[2].role = "tool"
    /\ rconv.messages[2].ctype = "execution_output"
    /\ rconv.messages[2].img
    /\ rconv.messages[2].recipient = "all"
    /\ ContributesFull(2)
    /\ ContributesAppend(2)

\* the messages with a content type no renderer is registered for
Unregistered(m) == m.ctype = "future_type"

\* the number of fallback fragments a render holds
Fallbacks(html) == CountOcc(html, <<Unsupported>>)

\* C13: a message with an unregistered content type does not stop the
\* render: where the message passes the filters it renders as the fixed
\* fallback fragment, and the other messages of the conversation are
\* rendered all the same.
C13_UnknownTypeFallback ==
    rout.pc = "done" =>
        \A j \in 1..NumMessages :
            Unregistered(rconv.messages[j]) =>
                /\ \A k \in 1..NumMessages :
                      k # j => /\ Contains(rout.full, Word(k))
                               /\ k > rk => Contains(rout.app, Word(k))
                /\ ~Skipped(rconv.messages[j]) =>
                      /\ Fallbacks(rout.full) = 1
                      /\ ContributesFull(j)
                      /\ j > rk => Fallbacks(rout.app) = 1

C13_Witness ==
    /\ rout.pc = "done"
    /\ NumMessages = 2
    /\ rk = 0
    /\ Unregistered(rconv.messages[1])
    /\ rconv.messages[1].role = "assistant"
    /\ rconv.messages[1].recipient = "all"
    /\ Fallbacks(rout.app) = 1
    /\ Contains(rout.app, Word(2))

(***************************************************************************)
(* Properties of the archive parser, over ParseSpec.                       *)
(***************************************************************************)
\* the nodes that wrap a message with non-empty content
WithContent ==
    {k \in 1..Len(mapping.nodes) : mapping.nodes[k].message /\ mapping.nodes[k].content = "text"}

\* the mapping is an object and so is every node of it
WellFormed ==
    /\ mapping.key = "object"
    /\ \A k \in 1..Len(mapping.nodes) : mapping.nodes[k].object

\* the create_time the claim orders by: zero where the record has none
OrderTime(k) ==
    IF mapping.nodes[k].ctime.kind = "number" THEN mapping.nodes[k].ctime.val ELSE 0

\* messages i < j are in ascending create_time order, equal times in the
\* order of the mapping
InOrder(msgs) ==
    \A i, j \in 1..Len(msgs) :
        i < j =>
            \/ OrderTime(msgs[i].pos) < OrderTime(msgs[j].pos)
            \/ /\ OrderTime(msgs[i].pos) = OrderTime(msgs[j].pos)
               /\ msgs[i].pos < msgs[j].pos

\* every node of S yields exactly one message and no other node yields any
OnePerNode(msgs, S) ==
    /\ Len(msgs) = Cardinality(S)
    /\ \A k \in S : \E i \in 1..Len(msgs) : msgs[i].pos = k

\* C19: process_conversation returns the surviving messages in ascending
\* create_time order, equal times in the iteration order of the mapping;
\* every node without a message or with empty or absent content is dropped
\* and every other node yields exactly one message.
C19_SortedSurvivors ==
    (parsed.pc = "done" /\ WellFormed) =>
        /\ ~parsed.raised
        /\ InOrder(parsed.messages)
        /\ OnePerNode(parsed.messages, WithContent)

\* the part of C19 that holds: when no create_time is null
C19_SortedSurvivorsNoNull ==
    (/\ parsed.pc = "done"
     /\ WellFormed
     /\ \A k \in WithContent : mapping.nodes[k].ctime.kind # "null") =>
        /\ ~parsed.raised
        /\ InOrder(parsed.messages)
        /\ OnePerNode(parsed.messages, WithContent)

\* C20: process_conversation filters out every message without create_time:
\* the conversation returned holds only messages whose record has one.
C20_UntimedFiltered ==
    (parsed.pc = "done" /\ ~parsed.raised) =>
        \A i \in 1..Len(parsed.messages) :
            mapping.nodes[parsed.messages[i].pos].ctime.kind = "number"

(***************************************************************************)
(* Properties of the batch, over BatchSpec.                                *)
(***************************************************************************)
Done == batch.pc = "done"

\* the conversations of the source: file f, position j in the file
Occurrences ==
    {fj \in (1..MaxFiles) \X (1..MaxEntries) :
        fj[1] <= Len(source.files) /\ fj[2] <= Len(source.files[fj[1]].entries)}

EntryOf(fj) == source.files[fj[1]].entries[fj[2]]

\* the index under which the batch knows the conversation
IndexOf(fj) == IF source.files[fj[1]].kind = "dict" THEN -1 ELSE fj[2] - 1

OutcomesOf(f, i) ==
    {k \in 1..Len(batch.outcomes) :
        batch.outcomes[k].file = f /\ batch.outcomes[k].index = i}

ExportsOf(f, i) ==
    {k \in 1..Len(batch.exports) :
        batch.exports[k].file = f /\ batch.exports[k].index = i}

\* what the conversation of an item comes to when it is processed alone
SyncsAlone(item) ==
    ProcessIndexedConversation(item, source, batch.note_index).success

SomeFailed ==
    \E k \in 1..Len(batch.outcomes) : batch.outcomes[k].outcome = "failed"

\* C14: one conversation's failure never prevents the rest: every indexed
\* conversation ends in exactly one outcome, synced or failed, the outcome
\* it has on its own, and the batch returns 1 if at least one failed, else 0.
C14_EveryOutcomeOnce ==
    Done =>
        /\ \A k \in 1..Len(batch.index) :
            LET item == batch.index[k]
                mine == OutcomesOf(item.file, item.index)
            IN /\ Cardinality(mine) = 1
               /\ \A o \in mine :
                    batch.outcomes[o].outcome =
                        IF SyncsAlone(item) THEN "synced" ELSE "failed"
        /\ batch.processed + batch.failed = Len(batch.index)
        /\ batch.result = IF SomeFailed THEN 1 ELSE 0

\* a batch whose first conversation failed and whose second was synced
C14_Witness ==
    /\ Done
    /\ Len(batch.outcomes) >= 2
    /\ batch.outcomes[1].outcome = "failed"
    /\ batch.outcomes[2].outcome = "synced"
    /\ batch.result = 1

\* C15: a source file that is not valid JSON counts as a failure: the
\* batch returns 1, not 0.
C15_InvalidFileFails ==
    (Done /\ \E f \in 1..Len(source.files) :
                source.files[f].kind \in {"text", "cut"}) =>
        batch.result = 1

Exportable(fj) ==
    /\ Timed(EntryOf(fj))
    /\ ~LoadRaises(source.files[fj[1]])
    /\ EntryOf(fj).kind # "unparsable"

SourceIds == {EntryOf(fj).cid : fj \in Occurrences}

\* C17: with archive-deleted, at the end of the batch a note of the
\* pre-batch snapshot is archived iff its conversation id is not among the
\* conversations of the source.
C17_ArchivedIffNotInSource ==
    (Done /\ source.files # <<>> /\ source.archive_deleted /\ ~source.dry_run) =>
        \A c \in source.notes : c \in batch.archived <=> c \notin SourceIds

\* C18: a dry-run batch performs no Note Store operation at all, whatever
\* the other flags.
C18_DryRunTouchesNothing ==
    source.dry_run => (batch.ops = <<>> /\ batch.archived = {})

\* a finished dry run with every flag set, notes in the folder, and a
\* conversation handed to export
C18_Witness ==
    /\ Done
    /\ source.dry_run /\ source.overwrite /\ source.archive_deleted
    /\ source.notes # {}
    /\ "X" \in SourceIds
    /\ Len(batch.exports) >= 1

\* the record is structurally malformed: no mapping, or a node that is not
\* an object
Malformed ==
    \/ mapping.key = "absent"
    \/ \E k \in 1..Len(mapping.nodes) : ~mapping.nodes[k].object

\* C21: process_conversation never raises on a structurally malformed
\* record: when the mapping is missing, or a node of the mapping is not an
\* object, the result is a conversation with an empty message list.
C21_MalformedDegrades ==
    (parsed.pc = "done" /\ Malformed) =>
        (~parsed.raised /\ parsed.messages = <<>>)

\* the part of C21 that holds: a record without a mapping
C21_MissingMappingDegrades ==
    (parsed.pc = "done" /\ mapping.key = "absent") =>
        (~parsed.raised /\ parsed.messages = <<>>)

(***************************************************************************)
(* Properties of the markdown pipeline, over MarkdownSpec.                 *)
(***************************************************************************)
Rendered == ret.pc = "done"

TagsOf(html) == {html[k].name : k \in {j \in 1..Len(html) : html[j].k = "tag"}}

\* block container, bold, italic, fixed-width inline and block, headings 1
\* and 2, quotation block, image, anchor link (the footer line is a div)
AllowedTags == {"div", "b", "i", "tt", "pre", "h1", "h2", "blockquote", "img", "a"}

EmittedTags(pipeline) ==
    AllowedTags
    \cup {"h3", "h4", "h5", "h6", "br", "hr",
          "table", "thead", "tbody", "tr", "th", "td"}
    \cup (IF pipeline = "_markdown_to_apple_notes"
          THEN {"ul", "ol", "li", "code"} ELSE {})

IsListOpen(t) == t.tag \in {"ul", "ol"} /\ t.nesting = 1

IsListClose(t) == t.tag \in {"ul", "ol"} /\ t.nesting = -1

IsItemOpen(t) == t.tag = "li" /\ t.nesting = 1

IsItemClose(t) == t.tag = "li" /\ t.nesting = -1

\* the tokens from i on are well nested under the open lists and items of
\* open: a list opens at the top or inside an item, an item inside a list,
\* and each closes what was opened last
RECURSIVE Nests(_, _, _)
Nests(tokens, i, open) ==
    IF i > Len(tokens) THEN open = <<>>
    ELSE LET t == tokens[i]
         IN CASE IsListOpen(t) ->
                    /\ (open = <<>> \/ Top(open) = "li")
                    /\ Nests(tokens, i + 1, Append(open, t.tag))
              [] IsListClose(t) ->
                    /\ open # <<>>
                    /\ Top(open) = t.tag
                    /\ Nests(tokens, i + 1, Pop(open))
              [] IsItemOpen(t) ->
                    /\ open # <<>>
                    /\ Top(open) \in {"ul", "ol"}
                    /\ Nests(tokens, i + 1, Append(open, "li"))
              [] IsItemClose(t) ->
                    /\ open # <<>>
                    /\ Top(open) = "li"
                    /\ Nests(tokens, i + 1, Pop(open))
              [] OTHER -> Nests(tokens, i + 1, open)

\* the number of lists open before token i
ListDepth(tokens, i) ==
    Cardinality({j \in 1..i - 1 : IsListOpen(tokens[j])})
    - Cardinality({j \in 1..i - 1 : IsListClose(tokens[j])})

\* the list an item belongs to: the last one opened before it at its depth
OwnerOf(tokens, i) ==
    CHOOSE j \in 1..i - 1 :
        /\ IsListOpen(tokens[j])
        /\ ListDepth(tokens, j) + 1 = ListDepth(tokens, i)
        /\ \A l \in j + 1..i - 1 :
            ~(IsListOpen(tokens[l]) /\ ListDepth(tokens, l) = ListDepth(tokens, j))

\* the place of an item among the items of its own list
OrdinalOf(tokens, i) ==
    1 + Cardinality({j \in OwnerOf(tokens, i) + 1..i - 1 :
                        /\ IsItemOpen(tokens[j])
                        /\ ListDepth(tokens, j) = ListDepth(tokens, i)})

ExpectedPrefix(tokens, i) ==
    IF tokens[OwnerOf(tokens, i)].tag = "ol"
    THEN NumberEl(OrdinalOf(tokens, i)) ELSE BulletEl

IsPrefix(e) == e.k = "text" /\ e.name \in {"number", "bullet"}

\* the item prefixes of a rendered text, in order
PrefixesOf(html) == SelectSeq(html, IsPrefix)

ItemsOf(tokens) ==
    SelectSeq([i \in 1..Len(tokens) |-> i], LAMBDA i : IsItemOpen(tokens[i]))

\* C25: for any well-nested sequence of list-open, list-item and
\* list-close tokens, the k-th item of each ordered list is prefixed "k."
\* counting only that list's own items, whatever nesting lies between and
\* whatever number the source wrote; every item of an unordered list gets
\* the bullet; and list_state is empty when rendering ends.
C25_ListPrefixes ==
    (Rendered /\ call.fn = "markdown_to_html" /\ Nests(call.tokens, 1, <<>>)) =>
        /\ PrefixesOf(ret.html) =
            [n \in 1..Len(ItemsOf(call.tokens)) |->
                ExpectedPrefix(call.tokens, ItemsOf(call.tokens)[n])]
        /\ ret.list_state = <<>>

\* an ordered list written from 5 whose first item holds an unordered list
C25_Witness ==
    /\ Rendered
    /\ call.fn = "markdown_to_html"
    /\ Nests(call.tokens, 1, <<>>)
    /\ Len(call.tokens) = 13
    /\ call.tokens[1] = ListOpen(KindOf("ol5"))
    /\ IsListOpen(call.tokens[4]) /\ call.tokens[4].tag = "ul"
    /\ PrefixesOf(ret.html) = <<NumberEl(1), BulletEl, NumberEl(2)>>

\* ---------------------------------------------------------------------
\* Math-notation protection (exporters/handlers/utils/latex.py).
\* A text is a sequence of one-character strings.
\* ---------------------------------------------------------------------

MaxSegments == 3

\* the placeholder delimiter character
Box == "box"

Segments ==
    { <<"a">>, <<"<">>, <<"\n">>, <<"$">>,
      <<"\\", "(">>, <<"\\", ")">>, <<"\\", "[">>, <<"\\", "]">>,
      <<"$", "a", "$">>, <<Box, "0", Box>> }

RECURSIVE Texts(_)
Texts(n) ==
    IF n = 0 THEN { <<>> }
    ELSE { seg \o rest : seg \in Segments, rest \in Texts(n - 1) }

At(text, i, c) == i <= Len(text) /\ text[i] = c

\* `open [\s\S]+? close`: the nearest closing pair after at least one character
DelimitedEnd(text, i, o1, o2, c1, c2) ==
    IF At(text, i, o1) /\ At(text, i + 1, o2)
    THEN LET ends == { j \in (i + 3)..(Len(text) - 1) :
                         text[j] = c1 /\ text[j + 1] = c2 }
         IN  IF ends = {} THEN 0
             ELSE (CHOOSE j \in ends : \A k \in ends : j <= k) + 1
    ELSE 0

\* `\$[^\$\n]+?\$`
InlineEnd(text, i) ==
    IF At(text, i, "$")
    THEN LET ends == { j \in (i + 2)..Len(text) :
                         /\ text[j] = "$"
                         /\ \A k \in (i + 1)..(j - 1) : text[k] \notin {"$", "\n"} }
         IN  IF ends = {} THEN 0 ELSE CHOOSE j \in ends : TRUE
    ELSE 0

\* LATEX_PATTERN: index of the last character of the match starting at i, or 0
LatexEnd(text, i) ==
    LET display == DelimitedEnd(text, i, "$", "$", "$", "$")
        inline  == InlineEnd(text, i)
        square  == DelimitedEnd(text, i, "\\", "[", "\\", "]")
        round   == DelimitedEnd(text, i, "\\", "(", "\\", ")")
    IN  IF display > 0 THEN display
        ELSE IF inline > 0 THEN inline
        ELSE IF square > 0 THEN square
        ELSE round

Digits == <<"0", "1", "2", "3", "4", "5", "6", "7", "8", "9">>

Placeholder(index) == <<Box, Digits[index + 1], Box>>

\* LATEX_PATTERN.sub(replacer, text) from position i, with the matches so far
RECURSIVE ProtectFrom(_, _, _)
ProtectFrom(text, i, matches) ==
    IF i > Len(text) THEN [text |-> <<>>, matches |-> matches]
    ELSE LET e == LatexEnd(text, i)
         IN  IF e > 0
             THEN LET rest == ProtectFrom(text, e + 1,
                                          Append(matches, SubSeq(text, i, e)))
                  IN  [text |-> Placeholder(Len(matches)) \o rest.text,
                       matches |-> rest.matches]
             ELSE LET rest == ProtectFrom(text, i + 1, matches)
                  IN  [text |-> <<text[i]>> \o rest.text,
                       matches |-> rest.matches]

protect_latex(text) == ProtectFrom(text, 1, <<>>)

HtmlEscapeChar(c) ==
    CASE c = "&"  -> <<"&", "a", "m", "p", ";">>
      [] c = "<"  -> <<"&", "l", "t", ";">>
      [] c = ">"  -> <<"&", "g", "t", ";">>
      [] c = "\"" -> <<"&", "q", "u", "o", "t", ";">>
      [] c = "'"  -> <<"&", "#", "x", "2", "7", ";">>
      [] OTHER    -> <<c>>

RECURSIVE HtmlEscape(_)
HtmlEscape(s) ==
    IF s = <<>> THEN <<>> ELSE HtmlEscapeChar(Head(s)) \o HtmlEscape(Tail(s))

StartsWith(text, prefix) ==
    Len(text) >= Len(prefix) /\ SubSeq(text, 1, Len(prefix)) = prefix

\* str.replace: every non-overlapping occurrence, left to right
RECURSIVE Replace(_, _, _)
Replace(text, old, new) ==
    IF text = <<>> THEN <<>>
    ELSE IF StartsWith(text, old)
         THEN new \o Replace(Drop(text, Len(old)), old, new)
         ELSE <<Head(text)>> \o Replace(Tail(text), old, new)

RECURSIVE RestoreFrom(_, _, _)
RestoreFrom(text, matches, i) ==
    IF i > Len(matches) THEN text
    ELSE RestoreFrom(Replace(text, Placeholder(i - 1), HtmlEscape(matches[i])),
                     matches, i + 1)

restore_latex(text, matches) == RestoreFrom(text, matches, 1)

LatexInit ==
    /\ convs = [c \in ConvIds |-> <<>>]
    /\ folder = <<>>
    /\ nextId = 1
    /\ passes = 0
    /\ everOverwrite = FALSE
    /\ last = Idle
    /\ RenderIdle
    /\ ParseIdle
    /\ BatchIdle
    /\ \E n \in 0..MaxSegments : \E text \in Texts(n) :
            call = [fn |-> "protect_latex", text |-> text]
    /\ ret = [pc |-> "idle"]

DoProtectLatex ==
    /\ ret.pc = "idle"
    /\ call.fn = "protect_latex"
    /\ LET p == protect_latex(call.text)
       IN  ret' = [pc |-> "protected", text |-> p.text, matches |-> p.matches]
    /\ UNCHANGED <<syncVars, renderVars, parseVars, batchVars, call>>

DoRestoreLatex ==
    /\ ret.pc = "protected"
    /\ ret' = [ret EXCEPT !.pc = "restored",
                          !.text = restore_latex(ret.text, ret.matches)]
    /\ UNCHANGED <<syncVars, renderVars, parseVars, batchVars, call>>

LatexNext == DoProtectLatex \/ DoRestoreLatex

LatexSpec == LatexInit /\ [][LatexNext]_vars

\* ---------------------------------------------------------------------
\* Math-notation round trip.
\* ---------------------------------------------------------------------

Restored == ret.pc = "restored"

HasBox(text) == \E i \in 1..Len(text) : text[i] = Box

\* the input with every math substring HTML-escaped in place
RECURSIVE EscapeMath(_, _)
EscapeMath(text, i) ==
    IF i > Len(text) THEN <<>>
    ELSE LET e == LatexEnd(text, i)
         IN  IF e > 0 THEN HtmlEscape(SubSeq(text, i, e)) \o EscapeMath(text, e + 1)
             ELSE <<text[i]>> \o EscapeMath(text, i + 1)

\* C23: protect_latex followed by restore_latex reproduces every math
\* substring exactly at its original position and changes nothing else,
\* so the restored text is the input text.
C23_RoundTripExact == Restored => ret.text = call.text

\* C23 read with the HTML escaping of the restored math: the restored
\* text is the input with each math substring escaped in place.
C23_RoundTripEscaped == Restored => ret.text = EscapeMath(call.text, 1)

\* C23 for inputs free of the placeholder delimiter.
C23_RoundTripNoPlaceholder ==
    (Restored /\ ~HasBox(call.text)) => ret.text = EscapeMath(call.text, 1)

C23_Collision ==
    /\ Restored
    /\ call.text = <<Box, "0", Box, "$", "a", "$">>
    /\ ret.text = <<"$", "a", "$", "$", "a", "$">>

\* ---------------------------------------------------------------------
\* The snapshot of the destination folder.
\* ---------------------------------------------------------------------

Scans == SelectSeq(batch.ops, LAMBDA o : o.op = "scan")

SnapshotServed ==
    /\ Len(Scans) = 1
    /\ batch.ops[1].op = "scan"
    /\ batch.note_index = source.notes
    /\ \A k \in 1..Len(batch.exports) :
            batch.exports[k].existing = (batch.exports[k].cid \in source.notes)

\* C24: in a non-dry-run batch the folder is scanned exactly once, before
\* the first export, every export receives the entry of that snapshot for
\* its conversation id (or none), and the snapshot is never changed.
C24_ScannedOnce == (batch.pc # "idle" /\ ~source.dry_run) => SnapshotServed

\* C24 for a batch that found at least one input file: one scan, first of
\* all store operations, whose entries are what every export receives.
C24_ScannedOnceIfFiles ==
    (batch.pc # "idle" /\ ~source.dry_run /\ source.files # <<>>)
        => SnapshotServed

\* C24: no step of the loop or of the archive changes the snapshot.
C24_SnapshotKept ==
    [][batch.pc = "loop" => batch'.note_index = batch.note_index]_vars

C24_Witness ==
    /\ Done
    /\ ~source.dry_run
    /\ SnapshotServed
    /\ \E j, k \in 1..Len(batch.exports) :
            batch.exports[j].existing /\ ~batch.exports[k].existing

\* ---------------------------------------------------------------------
\* add_block_spacing step by step (exporters/handlers/utils/spacing.py).
\* ---------------------------------------------------------------------

MaxElems == 4

Space == El("ws", " ", 0, 0)

HtmlElems ==
    { Tag("div", 1), Tag("div", -1), Tag("ul", -1), Tag("li", 1),
      Tag("br", 0), TextEl("text"), Lf, Space }

RECURSIVE Htmls(_)
Htmls(n) ==
    IF n = 0 THEN { <<>> }
    ELSE { <<e>> \o rest : e \in HtmlElems, rest \in Htmls(n - 1) }

SpacingInit ==
    /\ convs = [c \in ConvIds |-> <<>>]
    /\ folder = <<>>
    /\ nextId = 1
    /\ passes = 0
    /\ everOverwrite = FALSE
    /\ last = Idle
    /\ RenderIdle
    /\ ParseIdle
    /\ BatchIdle
    /\ \E n \in 0..MaxElems : \E h \in Htmls(n) :
            call = [fn |-> "add_block_spacing", html |-> h]
    /\ ret = [pc |-> "idle"]

\* the clean-up re.sub and prev = ""
DoCleanEmptyDivs ==
    /\ ret.pc = "idle"
    /\ call.fn = "add_block_spacing"
    /\ ret' = [pc |-> "loop", html |-> CleanEmptyDivs(call.html), prev |-> <<>>,
               passes |-> 0, changing |-> 0]
    /\ UNCHANGED <<syncVars, renderVars, parseVars, batchVars, call>>

\* one iteration of while prev != html
DoSpacingPass ==
    /\ ret.pc = "loop"
    /\ ret.prev # ret.html
    /\ LET next == SpacingPass(ret.html)
       IN  ret' = [ret EXCEPT !.prev = ret.html,
                              !.html = next,
                              !.passes = @ + 1,
                              !.changing = IF next # ret.html THEN @ + 1 ELSE @]
    /\ UNCHANGED <<syncVars, renderVars, parseVars, batchVars, call>>

\* the loop is left and the markers become empty paragraphs
DoReplaceMarkers ==
    /\ ret.pc = "loop"
    /\ ret.prev = ret.html
    /\ ret' = [ret EXCEPT !.pc = "done", !.html = ReplaceMarkers(ret.html)]
    /\ UNCHANGED <<syncVars, renderVars, parseVars, batchVars, call>>

SpacingNext == DoCleanEmptyDivs \/ DoSpacingPass \/ DoReplaceMarkers

SpacingSpec == SpacingInit /\ [][SpacingNext]_vars

\* the interpreter runs the function to its end
SpacingLive == SpacingSpec /\ WF_vars(SpacingNext)

\* ---------------------------------------------------------------------
\* Termination and result of add_block_spacing.
\* ---------------------------------------------------------------------

Spaced == ret.pc = "done" /\ call.fn = "add_block_spacing"

BlockCount(h) ==
    Cardinality({i \in 1..Len(h) : IsClosingBlock(h[i]) \/ IsOpeningBlock(h[i])})

\* i is a closing block tag followed, up to whitespace, by an opening one
IsPairAt(h, i) ==
    /\ IsClosingBlock(h[i])
    /\ \E o \in (i + 1)..Len(h) :
            /\ IsOpeningBlock(h[o])
            /\ \A k \in (i + 1)..(o - 1) : IsWs(h[k])

\* i is whitespace between the two tags of such a pair
IsInsidePair(h, i) ==
    /\ IsWs(h[i])
    /\ \E c \in 1..(i - 1) :
            IsPairAt(h, c) /\ \A k \in (c + 1)..i : IsWs(h[k])

EmptyParagraph == <<Tag("div", 1), Tag("br", 0), Tag("div", -1)>>

RECURSIVE Flatten(_)
Flatten(ss) == IF ss = <<>> THEN <<>> ELSE Head(ss) \o Flatten(Tail(ss))

\* h with one spacer, on a line of its own, in every such pair
WithSpacers(h) ==
    Flatten([i \in 1..Len(h) |->
                IF IsPairAt(h, i) THEN <<h[i], Lf>> \o EmptyParagraph \o <<Lf>>
                ELSE IF IsInsidePair(h, i) THEN <<>>
                ELSE <<h[i]>>])

\* the closing tags of the pairs of h, in order
PairsOf(h) == SelectSeq([i \in 1..Len(h) |-> [at |-> IsPairAt(h, i), tag |-> h[i]]],
                        LAMBDA p : p.at)

\* the closing tags of h that one marker, on a line of its own, separates
\* from an opening tag
IsSeparatedAt(h, i) ==
    /\ IsClosingBlock(h[i])
    /\ i + 4 <= Len(h)
    /\ SubSeq(h, i + 1, i + 3) = <<Lf, Marker, Lf>>
    /\ IsOpeningBlock(h[i + 4])

SeparatedOf(h) ==
    SelectSeq([i \in 1..Len(h) |-> [at |-> IsSeparatedAt(h, i), tag |-> h[i]]],
              LAMBDA p : p.at)

Markers(h) == Cardinality({i \in 1..Len(h) : h[i] = Marker})

\* the loop has reached its fixed point and the markers are still in place
Settled == ret.pc = "loop" /\ ret.prev = ret.html

PassesBounded(h) ==
    ret.pc \in {"loop", "done"} => ret.passes <= BlockCount(h) + 1

\* C26: add_block_spacing terminates after a number of passes bounded by
\* the number of block elements, and every closing block tag that in the
\* input was followed, up to whitespace, by an opening block tag is
\* separated from it by exactly one empty-paragraph spacer.
C26_SpacedInput ==
    /\ [](PassesBounded(call.html))
    /\ [](Settled => /\ SeparatedOf(ret.html) = PairsOf(call.html)
                     /\ Markers(ret.html) = Len(PairsOf(call.html)))
    /\ <>(ret.pc = "done")

\* C26 for the pairs left by the removal of the empty paragraphs that open
\* a list item or a quotation: at most two passes, one of them changing
\* the text, and the result is the cleaned input with one spacer in each
\* of its pairs.
C26_SpacedAfterCleanup ==
    /\ [](PassesBounded(call.html))
    /\ [](ret.pc \in {"loop", "done"} => ret.passes <= 2 /\ ret.changing <= 1)
    /\ [](Settled => /\ SeparatedOf(ret.html) = PairsOf(CleanEmptyDivs(call.html))
                     /\ Markers(ret.html) = Len(PairsOf(CleanEmptyDivs(call.html))))
    /\ [](Spaced => /\ ret.html = WithSpacers(CleanEmptyDivs(call.html))
                    /\ ret.html = AddBlockSpacing(call.html))
    /\ <>(ret.pc = "done")

C26_Witness ==
    /\ Spaced
    /\ call.html = <<Tag("div", -1), Tag("div", 1), Tag("div", -1), Tag("div", 1)>>
    /\ ret.passes = 2
    /\ ret.html = <<Tag("div", -1), Lf>> \o EmptyParagraph \o <<Lf, Tag("div", 1),
                    Tag("div", -1), Lf>> \o EmptyParagraph \o <<Lf, Tag("div", 1)>>

C26_CleanedPair ==
    /\ Spaced
    /\ call.html = <<Tag("li", 1), Tag("div", 1), Tag("div", -1), Tag("div", 1)>>
    /\ ret.html = <<Tag("li", 1), Lf, Tag("div", 1)>>

\* ---------------------------------------------------------------------
\* The handler registries (exporters/handlers/__init__.py and
\* exporters/handlers/parts/__init__.py).
\* ---------------------------------------------------------------------

MaxRegistrations == 2

RegistryKinds == {"HandlerRegistry", "PartRegistry"}

HandlerTypes == {"text", "thoughts", "audio"}

\* a handler instance: its class, the content types it names (one string
\* or a list) and its internal flag
HandlerInstances ==
    [id : {"A", "B"}, content_type : {<<"text">>, <<"thoughts">>,
                                      <<"thoughts", "audio">>},
     internal : BOOLEAN]

NoHandler == [id |-> "", content_type |-> <<>>, internal |-> FALSE]

\* the content_type entry of a content or part dict: absent, null or a string
TypeEntries ==
    {[key |-> "absent", val |-> ""], [key |-> "null", val |-> ""]}
        \cup {[key |-> "str", val |-> t] : t \in HandlerTypes \cup {"", "unknown"}}

RenderContexts == [render_internals : BOOLEAN]

NoOutput == [some |-> FALSE, by |-> "", entry |-> [key |-> "absent", val |-> ""]]

\* what handler_instance.render returns
HandlerOutput(h, entry) == [some |-> TRUE, by |-> h.id, entry |-> entry]

\* for t in types: self._handlers[t] = handler_instance
RECURSIVE RegisterTypes(_, _, _)
RegisterTypes(handlers, h, types) ==
    IF types = <<>> THEN handlers
    ELSE RegisterTypes([handlers EXCEPT ![Head(types)] = h], h, Tail(types))

Register(handlers, h) == RegisterTypes(handlers, h, h.content_type)

\* self._handlers.get(content_type)
HandlerFor(handlers, entry) ==
    IF entry.key = "str" /\ entry.val \in DOMAIN handlers
    THEN handlers[entry.val] ELSE NoHandler

\* a dispatch that forgets the internal flag
Dispatch_IgnoresInternal(h, entry, ctx) ==
    IF h = NoHandler THEN [value |-> NoOutput, invoked |-> <<>>]
    ELSE [value |-> HandlerOutput(h, entry), invoked |-> <<h.id>>]

\* the three exits that the two render methods share
Dispatch(h, entry, ctx) ==
    IF h = NoHandler THEN [value |-> NoOutput, invoked |-> <<>>]
    ELSE IF h.internal /\ ~ctx.render_internals
    THEN [value |-> NoOutput, invoked |-> <<>>]
    ELSE [value |-> HandlerOutput(h, entry), invoked |-> <<h.id>>]

\* content.get("content_type", "text")
HandlerRegistryRender(handlers, entry, ctx) ==
    LET content_type == IF entry.key = "absent"
                        THEN [key |-> "str", val |-> "text"] ELSE entry
    IN  Dispatch(HandlerFor(handlers, content_type), entry, ctx)

\* part.get("content_type"); if not content_type: return None
PartRegistryRender(handlers, entry, ctx) ==
    IF entry.key # "str" \/ entry.val = ""
    THEN [value |-> NoOutput, invoked |-> <<>>]
    ELSE Dispatch(HandlerFor(handlers, entry), entry, ctx)

RegistryInit ==
    /\ convs = [c \in ConvIds |-> <<>>]
    /\ folder = <<>>
    /\ nextId = 1
    /\ passes = 0
    /\ everOverwrite = FALSE
    /\ last = Idle
    /\ RenderIdle
    /\ ParseIdle
    /\ BatchIdle
    /\ \E kind \in RegistryKinds :
            call = [fn |-> "registry", kind |-> kind,
                    handlers |-> [t \in HandlerTypes |-> NoHandler],
                    registered |-> 0]
    /\ ret = [pc |-> "idle"]

\* registry.register(handler_instance); the result of an earlier render
\* is dropped
DoRegister ==
    /\ call.fn = "registry"
    /\ call.registered < MaxRegistrations
    /\ \E h \in HandlerInstances :
            call' = [call EXCEPT !.handlers = Register(@, h),
                                 !.registered = @ + 1]
    /\ ret' = [pc |-> "idle"]
    /\ UNCHANGED <<syncVars, renderVars, parseVars, batchVars>>

\* registry.render(content, metadata, ctx) or part_registry.render(part, ctx)
DoRegistryRender ==
    /\ call.fn = "registry"
    /\ \E entry \in TypeEntries, ctx \in RenderContexts :
            LET r == IF call.kind = "HandlerRegistry"
                     THEN HandlerRegistryRender(call.handlers, entry, ctx)
                     ELSE PartRegistryRender(call.handlers, entry, ctx)
            IN  ret' = [pc |-> "rendered", entry |-> entry, ctx |-> ctx,
                        value |-> r.value, invoked |-> r.invoked]
    /\ UNCHANGED <<syncVars, renderVars, parseVars, batchVars, call>>

RegistryNext == DoRegister \/ DoRegistryRender

RegistrySpec == RegistryInit /\ [][RegistryNext]_vars

\* ---------------------------------------------------------------------
\* Dispatch of the registries.
\* ---------------------------------------------------------------------

Dispatched == call.fn = "registry" /\ ret.pc = "rendered"

\* the content type the registry reads in the dict, "" for none
TypeRead ==
    IF ret.entry.key = "str" THEN ret.entry.val
    ELSE IF ret.entry.key = "absent" /\ call.kind = "HandlerRegistry" THEN "text"
    ELSE ""

IsRegistered == TypeRead \in HandlerTypes /\ call.handlers[TypeRead] # NoHandler

Allowed == ~call.handlers[TypeRead].internal \/ ret.ctx.render_internals

\* C27: render returns the output of the handler registered for the
\* content type when that handler is not internal or render_internals is
\* on; otherwise it returns None and invokes no handler.
C27_RegistryDispatch ==
    Dispatched =>
        IF IsRegistered /\ Allowed
        THEN /\ ret.value = HandlerOutput(call.handlers[TypeRead], ret.entry)
             /\ ret.invoked = <<call.handlers[TypeRead].id>>
        ELSE ret.value = NoOutput /\ ret.invoked = <<>>

C27_Witness ==
    /\ Dispatched
    /\ call.kind = "PartRegistry"
    /\ call.registered = 2
    /\ call.handlers["thoughts"].id = "B"
    /\ call.handlers["thoughts"].internal
    /\ call.handlers["audio"].id = "A"
    /\ ret.entry.val = "thoughts"
    /\ ret.ctx.render_internals
    /\ ret.value.some /\ ret.value.by = "B"

C27_Skipped ==
    /\ Dispatched
    /\ call.kind = "HandlerRegistry"
    /\ IsRegistered /\ ~Allowed
    /\ ret.value = NoOutput

\* ---------------------------------------------------------------------
\* Sync passes without a store error: the read and the write succeed, the
\* append may fail and fall back to the full write.
\* ---------------------------------------------------------------------

NextNoError ==
    \/ \E c \in ConvIds, kind \in {"user", "tool"} : AddMessage(c, kind)
    \/ \E c \in ConvIds, overwrite \in BOOLEAN, fail \in {"none", "append"} :
          Sync(c, overwrite, fail)

SpecNoError == Init /\ [][NextNoError]_vars

\* the notes of the folder that the exports of conversation c created
NotesOf(c) == {i \in 1..Len(folder) : folder[i].owner = c}

\* the notes of the folder whose body holds the id of conversation c
NotesWithId(c) == {i \in 1..Len(folder) : Contains(folder[i].body, c)}

\* C28: after any sequence of sync passes without a store error the folder
\* holds at most one note for each conversation id.
C28_OneNotePerConversation ==
    \A c \in ConvIds : Cardinality(NotesOf(c)) <= 1

\* C28 for the notes that carry the id of the conversation in their footer.
C28_OneNoteWithId ==
    \A c \in ConvIds : Cardinality(NotesWithId(c)) <= 1

C28_TwoNotes ==
    /\ Cardinality(NotesOf(CidA)) = 2
    /\ NotesWithId(CidA) = {}

\* C29: a sync pass for one conversation leaves the notes of every other
\* conversation as they were: none is deleted, appended to or replaced.
C29_OtherNotesUntouched == Ran => OtherNotesKept

C29_ForeignAppend ==
    /\ Ran
    /\ last.cid = CidA
    /\ \E i \in 1..Len(last.ops) : last.ops[i].op = "append" /\ last.ops[i].ok
    /\ \E i \in 1..Len(last.pre) :
            /\ last.pre[i].owner = CidB
            /\ folder[i].nid = last.pre[i].nid
            /\ folder[i].body # last.pre[i].body

C29_ForeignDelete ==
    /\ Ran
    /\ last.cid = CidA
    /\ \E i \in 1..Len(last.pre) :
            /\ last.pre[i].owner = CidB
            /\ ~HasNote(folder, last.pre[i].nid)

\* ---------------------------------------------------------------------
\* The full render and the append render side by side.
\* ---------------------------------------------------------------------

\* the conversation cut to its messages from..to
Slice(conv, from, to) ==
    Conversation(conv.id, conv.title, SubSeq(conv.messages, from, to))

\* a body without its title block: <div><h1>title</h1></div> and a spacer
AfterTitle(html) ==
    LET at == {i \in 1..Len(html) : html[i] = "</h1>"}
    IN  IF at = {} THEN html
        ELSE SubSeq(html, (CHOOSE i \in at : \A k \in at : i <= k) + 5, Len(html))

\* the author headings and content fragments of a full body, in order
SectionsOfFull(html) == BeforeFooter(AfterTitle(html))

\* the author headings and content fragments of an append body, in order
SectionsOfAppend(html) == BeforeFooter(html)

\* C30: the headings and content fragments of the append body after cursor
\* message K are those the full render produces for the messages after K,
\* so a note made from the first K messages and then appended to holds the
\* same message sections as one full render of all messages.
C30_AppendAgreesWithFull ==
    rout.pc = "done" =>
        LET n == Len(rconv.messages)
        IN  /\ SectionsOfAppend(rout.app)
                = SectionsOfFull(GenerateHtml(Slice(rconv, rk + 1, n), FALSE))
            /\ SectionsOfFull(rout.full)
                = SectionsOfFull(GenerateHtml(Slice(rconv, 1, rk), FALSE))
                    \o SectionsOfAppend(rout.app)

C30_Witness ==
    /\ rout.pc = "done"
    /\ rk = 1
    /\ Len(rconv.messages) = 2
    /\ ~Skipped(rconv.messages[2])
    /\ rconv.messages[2].role = "tool"
    /\ SectionsOfAppend(rout.app) = Section(rconv.messages[2])
    /\ SectionsOfFull(rout.full)
            = Section(rconv.messages[1]) \o Section(rconv.messages[2])

C30_SkippedAfterCursor ==
    /\ rout.pc = "done"
    /\ rk = 1
    /\ Len(rconv.messages) = 2
    /\ Skipped(rconv.messages[2])
    /\ SectionsOfAppend(rout.app) = <<>>
    /\ rout.app # <<>>

====
